---- MODULE Spec2Model ----
(***************************************************************************)
(* Model of commit-gen-ai.py.  The file holds two scripts ("variants"):    *)
(* the menu-driven script (lines 1-1124, variant 1) and the CLI script     *)
(* (lines 1127-2595, variant 2).  A run executes one of them.              *)
(*                                                                         *)
(* A Python str is a sequence of one-character strings; None is a value    *)
(* that is no str.  Text printed for the user is recorded as tags in out,  *)
(* except the commit message shown for review, which is kept verbatim in   *)
(* displayed.  Every git subprocess is an input of the action that runs    *)
(* it: its exit status (and output) is chosen by the environment.          *)
(***************************************************************************)
EXTENDS Integers, Sequences, FiniteSets

\* Bounds of the model
MaxHist == 3
MaxPosts == 3
MaxCmds == 2
TypeChoices == {1, 10}

----------------------------------------------------------------------------
\* Python values and str methods

None == <<"<None>">>

Truthy(x) == x # None /\ x # <<>>

IsSpace(c) == c \in {" ", "\n", "\t"}

RECURSIVE lstrip(_)
lstrip(s) == IF s # <<>> /\ IsSpace(Head(s)) THEN lstrip(Tail(s)) ELSE s

RECURSIVE rstrip(_)
rstrip(s) ==
  IF s # <<>> /\ IsSpace(s[Len(s)]) THEN rstrip(SubSeq(s, 1, Len(s) - 1)) ELSE s

strip(s) == rstrip(lstrip(s))

RECURSIVE join(_, _)
join(sep, parts) ==
  IF parts = <<>> THEN <<>>
  ELSE IF Len(parts) = 1 THEN parts[1]
  ELSE parts[1] \o sep \o join(sep, Tail(parts))

NL == <<"\n">>

\* str.find(c) and str.rfind(c) for a one-character c: 0-based, -1 when absent
find(str, c) ==
  IF \E i \in 1..Len(str) : str[i] = c
  THEN (CHOOSE i \in 1..Len(str) :
          str[i] = c /\ \A j \in 1..(i - 1) : str[j] # c) - 1
  ELSE -1

rfind(str, c) ==
  IF \E i \in 1..Len(str) : str[i] = c
  THEN (CHOOSE i \in 1..Len(str) :
          str[i] = c /\ \A j \in (i + 1)..Len(str) : str[j] # c) - 1
  ELSE -1

\* str[a:b] for 0 <= a
Slice(str, a, b) == SubSeq(str, a + 1, IF b > Len(str) THEN Len(str) ELSE b)

\* str.find(sub) for a string sub
findsub(str, sub) ==
  LET At(i) == i + Len(sub) <= Len(str) /\ SubSeq(str, i + 1, i + Len(sub)) = sub
  IN IF \E i \in 0..Len(str) : At(i)
     THEN CHOOSE i \in 0..Len(str) : At(i) /\ \A j \in 0..(i - 1) : ~At(j)
     ELSE -1

\* str.split(c, 1)
split1(str, c) ==
  IF find(str, c) < 0 THEN <<str>>
  ELSE <<Slice(str, 0, find(str, c)), Slice(str, find(str, c) + 1, Len(str))>>

\* str.split(c)
RECURSIVE split(_, _)
split(str, c) ==
  IF find(str, c) < 0 THEN <<str>>
  ELSE <<Slice(str, 0, find(str, c))>>
       \o split(Slice(str, find(str, c) + 1, Len(str)), c)

\* str.split(sub, 1) for a string sub
splitsub1(str, sub) ==
  IF findsub(str, sub) < 0 THEN <<str>>
  ELSE <<Slice(str, 0, findsub(str, sub)),
         Slice(str, findsub(str, sub) + Len(sub), Len(str))>>

\* str.strip(chars)
RECURSIVE strip_chars(_, _)
strip_chars(str, chars) ==
  IF str # <<>> /\ Head(str) \in chars THEN strip_chars(Tail(str), chars)
  ELSE IF str # <<>> /\ str[Len(str)] \in chars
  THEN strip_chars(SubSeq(str, 1, Len(str) - 1), chars)
  ELSE str

\* json.loads for the documents the model builds: one object whose members
\* are strings; members is the sequence of <<key, value>> pairs read so far
RECURSIVE SkipWs(_, _)
SkipWs(str, i) ==
  IF i <= Len(str) /\ str[i] \in {" ", "\n", "\t", "\r"} THEN SkipWs(str, i + 1)
  ELSE i

JsonEscapes ==
  [c \in {"n", "t", "\"", "\\", "/"} |->
     IF c = "n" THEN "\n" ELSE IF c = "t" THEN "\t" ELSE c]

\* the characters of a string literal after its opening quote at i - 1
RECURSIVE ScanString(_, _, _)
ScanString(str, i, acc) ==
  IF i > Len(str) \/ str[i] \in {"\n", "\t", "\r"}
  THEN [ok |-> FALSE, val |-> <<>>, next |-> i]
  ELSE IF str[i] = "\"" THEN [ok |-> TRUE, val |-> acc, next |-> i + 1]
  ELSE IF str[i] = "\\"
  THEN IF i + 1 <= Len(str) /\ str[i + 1] \in DOMAIN JsonEscapes
       THEN ScanString(str, i + 2, Append(acc, JsonEscapes[str[i + 1]]))
       ELSE [ok |-> FALSE, val |-> <<>>, next |-> i]
  ELSE ScanString(str, i + 1, Append(acc, str[i]))

ParseString(str, i) ==
  IF i <= Len(str) /\ str[i] = "\"" THEN ScanString(str, i + 1, <<>>)
  ELSE [ok |-> FALSE, val |-> <<>>, next |-> i]

JsonError == [ok |-> FALSE, members |-> <<>>]

RECURSIVE ParseMembers(_, _, _)
ParseMembers(str, i, members) ==
  LET key   == ParseString(str, SkipWs(str, i))
      colon == SkipWs(str, key.next)
      value == ParseString(str, SkipWs(str, colon + 1))
      after == SkipWs(str, value.next)
      all   == Append(members, <<key.val, value.val>>)
  IN IF ~key.ok \/ colon > Len(str) \/ str[colon] # ":" THEN JsonError
     ELSE IF ~value.ok \/ after > Len(str) THEN JsonError
     ELSE IF str[after] = "," THEN ParseMembers(str, after + 1, all)
     ELSE IF str[after] = "}" /\ SkipWs(str, after + 1) > Len(str)
     THEN [ok |-> TRUE, members |-> all]
     ELSE JsonError

json_loads(str) ==
  LET open  == SkipWs(str, 1)
      first == SkipWs(str, open + 1)
  IN IF open > Len(str) \/ str[open] # "{" \/ first > Len(str) THEN JsonError
     ELSE IF str[first] = "}"
     THEN IF SkipWs(str, first + 1) > Len(str)
          THEN [ok |-> TRUE, members |-> <<>>] ELSE JsonError
     ELSE ParseMembers(str, open + 1, <<>>)

\* dict lookup: the last member with the key wins
HasKey(members, key) == \E i \in 1..Len(members) : members[i][1] = key

GetKey(members, key) ==
  members[CHOOSE i \in 1..Len(members) :
            members[i][1] = key /\ \A j \in (i + 1)..Len(members) : members[j][1] # key][2]

\* lines = []; while True: line = input(); if not line and (not lines or
\* not lines[-1]): break; lines.append(line)
RECURSIVE ReadLines(_, _)
ReadLines(typed, lines) ==
  IF typed = <<>> THEN lines
  ELSE IF Head(typed) = <<>> /\ (lines = <<>> \/ lines[Len(lines)] = <<>>)
       THEN lines
       ELSE ReadLines(Tail(typed), Append(lines, Head(typed)))

\* what the user types at a "press Enter twice to finish" prompt: the lines
\* given, then the empty lines that end the reading
ManualMessage(typed) == join(NL, ReadLines(typed \o << <<>>, <<>> >>, <<>>))

----------------------------------------------------------------------------
\* Program constants

COMMIT_TYPES ==
  << <<"f","e","a","t">>, <<"f","i","x">>, <<"d","o","c","s">>,
     <<"s","t","y","l","e">>, <<"r","e","f","a","c","t","o","r">>,
     <<"p","e","r","f">>, <<"t","e","s","t">>, <<"b","u","i","l","d">>,
     <<"c","i">>, <<"c","h","o","r","e">> >>

NoChangesText ==
  <<"N","o"," ","c","h","a","n","g","e","s"," ","t","o"," ",
    "c","o","m","m","i","t">>

BreakingMarker ==
  <<"B","R","E","A","K","I","N","G"," ","C","H","A","N","G","E",":"," ">>

FieldNames == {"type", "scope", "subject", "body", "breaking", "footer"}

EmptyData ==
  [type |-> <<>>, scope |-> <<>>, subject |-> <<>>, body |-> <<>>,
   breaking |-> <<>>, footer |-> <<>>]

----------------------------------------------------------------------------
\* Inputs the environment and the user can supply

Variants == {1, 2}
EnvFiles == {"missing", "nokey", "key"}
EnvVars == {"unset", "key"}
Subcommands == {"none", "status", "stage", "unstage", "undo-commit"}

\* the file arguments of stage and unstage
FileArgs == { <<>>, << <<"f">> >>, << <<"f">>, <<"g">> >> }

\* parse_arguments(): the namespace argparse builds from the command line
Args(command, files, all, hard) ==
  [command |-> command, files |-> files, all |-> all, hard |-> hard]

NoArgs == Args("none", <<>>, FALSE, FALSE)

CommandLines ==
  {NoArgs, Args("status", <<>>, FALSE, FALSE)}
    \cup {Args(c, f, a, FALSE) : c \in {"stage", "unstage"}, f \in FileArgs,
                                 a \in BOOLEAN}
    \cup {Args("undo-commit", <<>>, FALSE, h) : h \in BOOLEAN}

\* answers typed at the prompt of undo_last_commit
UndoAnswers ==
  { <<"y">>, <<"s">>, <<"y","e","s">>, <<"s","i">>, <<"Y">>, <<"S","i">>,
    <<"n">>, <<>>, <<"y"," ">> }

DiffOutputs == { <<>>, <<" ">>, <<"d">> }
Scopes == { <<>>, <<"c","o","r","e">> }

\* replies of the remote endpoint, variant 1: a failed request, or the
\* content of the first choice
Responses1 ==
  { [kind |-> "error", content |-> <<>>],
    [kind |-> "ok", content |-> <<"a">>],
    [kind |-> "ok", content |-> <<" ","b","\n">>],
    [kind |-> "ok", content |-> <<" ">>] }

TypedTexts ==
  { <<>>, << <<"c">> >>, << <<"c">>, <<>>, <<"d">> >> }

\* answers to "Apply this change? (y/n)", after strip().lower()
Confirms == {"y", "s", "n"}

\* commit ids the user enters, and what git rev-parse HEAD prints
CommitIds == { <<>>, <<"a">> }
HeadOutputs == { <<"a","b">>, <<"c">> }
ParentOutput == <<"p">>

\* file arguments typed in the git management menu
FilesInputs == { <<".">>, <<"f">> }
Names == { <<>>, <<"n">> }

\* replies of the remote endpoint, variant 2: a failed request, content that
\* holds a JSON object with the keys in has, or content that holds none
JsonFix ==
  [type |-> <<"f","i","x">>, scope |-> <<"c","o","r","e">>,
   subject |-> <<"S">>, body |-> <<>>, breaking |-> <<>>, footer |-> <<>>]

JsonFeat ==
  [type |-> <<"f","e","a","t">>, scope |-> <<>>, subject |-> <<"T">>,
   body |-> <<"b">>, breaking |-> <<"x">>, footer |-> <<"#","1">>]

\* a reply whose content is the given text
TextReply(content) == [kind |-> "text", content |-> content]

\* the JSON object with type fix, scope core, subject "Fix crash" and the
\* other three fields empty, as text
FixCrashReply ==
  <<"{","\"","t","y","p","e","\"",":","\"","f","i","x","\"",",","\"","s",
    "c","o","p","e","\"",":","\"","c","o","r","e","\"",",","\"","s","u","b",
    "j","e","c","t","\"",":","\"","F","i","x"," ","c","r","a","s","h","\"",
    ",","\"","b","o","d","y","\"",":","\"","\"",",","\"","b","r","e","a",
    "k","i","n","g","\"",":","\"","\"",",","\"","f","o","o","t","e","r",
    "\"",":","\"","\"","}">>

Responses2 ==
  { [kind |-> "error", has |-> {}, obj |-> EmptyData],
    [kind |-> "json", has |-> FieldNames, obj |-> JsonFix],
    [kind |-> "json", has |-> FieldNames \ {"scope"}, obj |-> JsonFeat],
    [kind |-> "json", has |-> {"type"}, obj |-> JsonFix],
    TextReply(FixCrashReply) }

\* contents of replies: the JSON object the prompt asks for, a JSON object
\* inside other text, an object cut short, braces around text that is no
\* JSON, braces in the wrong order, a header, a quoted message with body and
\* breaking change, a header with one more paragraph, text without a colon,
\* no text
TextReplies2 ==
  { TextReply(FixCrashReply),
    TextReply(
      <<"H","e","r","e",":"," ","{","\"","t","y","p","e","\"",":"," ","\"",
        "f","e","a","t","\"",","," ","\"","s","u","b","j","e","c","t","\"",
        ":"," ","\"","T","\"","}"," ","o","k">>),
    TextReply(
      <<"{","\"","t","y","p","e","\"",":","\"","f","i","x","\"",",","\"",
        "s","u","b","j","e","c","t","\"",":","\"","S","\"">>),
    TextReply(<<"{","t","y","p","e",":"," ","f","i","x","}">>),
    TextReply(<<"}"," ","f","i","x",":"," ","S"," ","{">>),
    TextReply(<<"f","i","x","(","c","o","r","e",")",":"," ","S">>),
    TextReply(
      <<"\"","f","e","a","t",":"," ","T","\n","\n","b","\n","\n","B","R",
        "E","A","K","I","N","G"," ","C","H","A","N","G","E",":"," ","x",
        "\"">>),
    TextReply(<<"d","o","c","s",":"," ","U","\n","\n","#","1">>),
    TextReply(<<"h","e","l","l","o">>),
    TextReply(<<>>) }

\* what the user types at the six prompts of a field-by-field edit
NoTyping ==
  [type |-> <<>>, scope |-> <<>>, subject |-> <<>>, body |-> <<>>,
   breaking |-> <<>>, footer |-> <<>>]

EditInputs2 ==
  { NoTyping,
    [NoTyping EXCEPT !.subject = <<" ","U"," ">>],
    [NoTyping EXCEPT !.type = <<"d","o","c","s">>, !.body = <<"p","|","q">>,
                     !.breaking = <<"y">>] }

----------------------------------------------------------------------------
\* State

VARIABLES
  variant,            \* which of the two scripts runs
  envFile,            \* the .env file next to the script
  envVar,             \* QWEN_API_KEY in the environment the process starts in
  argv,               \* the parsed command line (variant 2)
  pc,                 \* where the process is: the prompt it blocks on, or its end
  exc,                \* the exception that ended the process, "" when none
  op,                 \* the operation the last handler belongs to
  diff,               \* create_new_commit: diff
  commit_type,        \* create_new_commit (variant 1): commit_type
  scope,              \* create_new_commit (variant 1): scope
  message_history,    \* create_new_commit: message_history
  current_index,      \* create_new_commit: current_index (0-based, -1 when unset)
  formatted_message,  \* create_new_commit: formatted_message; in the flows
                      \* that rewrite a commit, the message awaiting confirmation
  commit_id,          \* edit_specific_commit, edit_commit_manually: commit_id
  script,             \* the file git_rebase_script.sh exists
  displayed,          \* the commit message printed at the last review prompt
  command_history,    \* variant 1: the global list command_history
  summary,            \* commands listed by the last show_command_summary
  out,                \* messages printed by the current operation
  gitRuns,            \* git subprocesses run by the current operation, in order
  posts,              \* POST requests sent by the current operation
  gitEver,            \* some git subprocess was run by this process
  postEver,           \* some POST request was sent by this process
  lastChoice,         \* the choice read at the last review prompt
  lastEdit,           \* the draft the user entered at the last edit
  answer,             \* undo_last_commit: the text read at its prompt
  genStatus,          \* outcome of generate_commit_message in the last step
  lastResult,         \* value generate_commit_message returned in the last step
  call                \* the last function applied on its own: name, arguments,
                      \* returned value

config == <<variant, envFile, envVar, argv>>
flowVars ==
  <<diff, commit_type, scope, message_history, current_index,
    formatted_message, displayed, commit_id, script>>
obsVars ==
  <<lastChoice, lastEdit, answer, genStatus, lastResult>>
vars ==
  <<variant, envFile, envVar, argv, pc, exc, op, diff, commit_type, scope,
    message_history, current_index, formatted_message, displayed,
    commit_id, script, command_history, summary, out, gitRuns, posts, gitEver, postEver,
    lastChoice, lastEdit, answer, genStatus, lastResult, call>>

NoCall == [fn |-> "none", args |-> <<>>, result |-> <<>>]

Init ==
  /\ variant \in Variants
  /\ envFile \in EnvFiles
  /\ envVar \in EnvVars
  /\ argv \in (IF variant = 1 THEN {NoArgs} ELSE CommandLines)
  /\ pc = "start"
  /\ exc = ""
  /\ op = "none"
  /\ diff = <<>>
  /\ commit_type = <<>>
  /\ scope = <<>>
  /\ message_history = <<>>
  /\ current_index = -1
  /\ formatted_message = <<>>
  /\ displayed = <<>>
  /\ commit_id = <<>>
  /\ script = FALSE
  /\ command_history = <<>>
  /\ summary = <<>>
  /\ out = {}
  /\ gitRuns = <<>>
  /\ posts = 0
  /\ gitEver = FALSE
  /\ postEver = FALSE
  /\ lastChoice = "none"
  /\ lastEdit = <<>>
  /\ answer = <<>>
  /\ genStatus = "none"
  /\ lastResult = <<>>
  /\ call = NoCall

----------------------------------------------------------------------------
\* Helpers shared by the handlers

\* one executed git subprocess
GitRun(cmd, arg, ok) == [cmd |-> cmd, arg |-> arg, ok |-> ok]

AnyFailed(runs) == \E i \in 1..Len(runs) : ~runs[i].ok

\* a run_git_command that returns the standard output as captured
Mut_run_git_command(ok, stdout) == IF ok THEN stdout ELSE None

\* run_git_command: the trimmed stdout, or None (after printing the error)
run_git_command(ok, stdout) == IF ok THEN strip(stdout) ELSE None

\* load_dotenv(env_path); os.getenv("QWEN_API_KEY"): load_dotenv leaves a
\* variable alone that the environment already defines
api_key ==
  IF envVar # "unset" THEN envVar
  ELSE IF envFile = "key" THEN "key"
  ELSE "unset"

HasApiKey == api_key = "key"

\* get_git_diff (variant 1)
get_git_diff1(ok, stdout) ==
  LET d == run_git_command(ok, stdout) IN IF d = None THEN <<>> ELSE d

\* a generate_commit_message that answers a failed request with the
\* placeholder text instead of the empty string
Mut_generate_commit_message1(d, resp) ==
  IF ~Truthy(d) THEN NoChangesText
  ELSE IF resp.kind = "error" THEN NoChangesText
  ELSE strip(resp.content)

\* generate_commit_message (variant 1): the returned text
generate_commit_message1(d, resp) ==
  IF ~Truthy(d) THEN NoChangesText
  ELSE IF resp.kind = "error" THEN <<>>
  ELSE strip(resp.content)

\* generate_commit_message: the number of POST requests one call sends
PostsOfCall(d) == IF Truthy(d) THEN 1 ELSE 0

GenStatusOf(d, resp) ==
  IF ~Truthy(d) THEN "nodiff" ELSE IF resp.kind = "error" THEN "error" ELSE "ok"

----------------------------------------------------------------------------
\* The state as one record, so that a handler is a function from the state
\* and its inputs to the next state

Cur ==
  [pc |-> pc, exc |-> exc, op |-> op, diff |-> diff,
   commit_type |-> commit_type, scope |-> scope,
   message_history |-> message_history, current_index |-> current_index,
   formatted_message |-> formatted_message, displayed |-> displayed,
   commit_id |-> commit_id, script |-> script,
   command_history |-> command_history, summary |-> summary, out |-> out,
   gitRuns |-> gitRuns, posts |-> posts, gitEver |-> gitEver,
   postEver |-> postEver, lastChoice |-> lastChoice, lastEdit |-> lastEdit,
   answer |-> answer, genStatus |-> genStatus, lastResult |-> lastResult]

ApplyState(r) ==
  /\ pc' = r.pc
  /\ exc' = r.exc
  /\ op' = r.op
  /\ diff' = r.diff
  /\ commit_type' = r.commit_type
  /\ scope' = r.scope
  /\ message_history' = r.message_history
  /\ current_index' = r.current_index
  /\ formatted_message' = r.formatted_message
  /\ displayed' = r.displayed
  /\ commit_id' = r.commit_id
  /\ script' = r.script
  /\ command_history' = r.command_history
  /\ summary' = r.summary
  /\ out' = r.out
  /\ gitRuns' = r.gitRuns
  /\ posts' = r.posts
  /\ gitEver' = r.gitEver
  /\ postEver' = r.postEver
  /\ lastChoice' = r.lastChoice
  /\ lastEdit' = r.lastEdit
  /\ answer' = r.answer
  /\ genStatus' = r.genStatus
  /\ lastResult' = r.lastResult
  /\ UNCHANGED config

\* a step of the program
Apply(r) == ApplyState(r) /\ call' = call

\* a function is applied on its own: r is the state it leaves
Call(r, f, args, result) ==
  ApplyState(r) /\ call' = [fn |-> f, args |-> args, result |-> result]

\* a menu choice starts a new operation: its locals and its record are fresh
Begin(s, name) ==
  [s EXCEPT !.op = name, !.out = {}, !.summary = <<>>, !.gitRuns = <<>>, !.posts = 0,
            !.diff = <<>>, !.commit_type = <<>>, !.scope = <<>>,
            !.message_history = <<>>, !.current_index = -1,
            !.formatted_message = <<>>, !.displayed = <<>>,
            !.commit_id = <<>>,
            !.lastChoice = "none", !.lastEdit = <<>>, !.answer = <<>>,
            !.genStatus = "none", !.lastResult = <<>>]

\* print(...)
Say(s, tag) == [s EXCEPT !.out = @ \cup {tag}]

\* subprocess.run([...]) of a git command
Git(s, cmd, arg, ok) ==
  [s EXCEPT !.gitRuns = Append(@, GitRun(cmd, arg, ok)), !.gitEver = TRUE]

\* run_git_command([...]): runs the command once, prints the error when the
\* exit status is not zero
RunGit(s, cmd, arg, ok) ==
  LET s1 == Git(s, cmd, arg, ok) IN IF ok THEN s1 ELSE Say(s1, "git_error")

\* track_command
track_command(s, name) == [s EXCEPT !.command_history = Append(@, name)]

\* requests.post(...) is reached only with a non-empty diff
Generate(s, d, resp, result) ==
  [s EXCEPT !.posts = @ + PostsOfCall(d),
            !.postEver = @ \/ PostsOfCall(d) > 0,
            !.genStatus = GenStatusOf(d, resp),
            !.lastResult = result,
            !.out = IF Truthy(d) /\ resp.kind = "error"
                    THEN @ \cup {"generate_error"} ELSE @]

\* an uncaught exception ends the process with a traceback
Raise(s, e) == [s EXCEPT !.pc = "crashed", !.exc = e]

\* a handler that returns drops its locals
Return(s) ==
  [s EXCEPT !.diff = <<>>, !.commit_type = <<>>, !.scope = <<>>,
            !.message_history = <<>>, !.current_index = -1,
            !.formatted_message = <<>>, !.commit_id = <<>>]

\* variant 1, main: show_command_summary after the operation, then the top
\* of the main loop clears command_history and prompts
ToMenu(s) ==
  [Return(s) EXCEPT !.pc = "menu", !.summary = s.command_history,
                    !.command_history = <<>>]

\* variant 2: the operation returns to main, which returns
ToExit(s) == [Return(s) EXCEPT !.pc = "exited"]

\* the operation is over: back to the main loop in variant 1, out of
\* main_ai_commit and main in variant 2
Leave(s) == IF variant = 1 THEN ToMenu(s) ELSE ToExit(s)

\* a later prompt of an operation is answered: what is printed, requested
\* and returned from here on belongs to this step
Step(s) == [s EXCEPT !.out = {}, !.genStatus = "none", !.lastResult = <<>>]

\* input() at the review prompt of create_new_commit
Choose(s, c) ==
  [s EXCEPT !.lastChoice = c, !.out = {}, !.lastEdit = <<>>,
            !.genStatus = "none", !.lastResult = <<>>]

\* input() at a confirmation prompt
Answer(s, c) == [Step(s) EXCEPT !.lastChoice = c]

Dot == <<".">>

----------------------------------------------------------------------------
\* Variant 1: main

\* a main that goes on to the menu whenever the .env file exists
Mut_main1(s) ==
  IF envFile = "missing"
  THEN [Say(Begin(s, "main"), "config_error") EXCEPT !.pc = "exited"]
  ELSE [Begin(s, "main") EXCEPT !.pc = "menu"]

main1(s) ==
  IF envFile = "missing" \/ ~HasApiKey
  THEN [Say(Begin(s, "main"), "config_error") EXCEPT !.pc = "exited"]
  ELSE [Begin(s, "main") EXCEPT !.pc = "menu"]

Main1 == pc = "start" /\ variant = 1 /\ Apply(main1(Cur))

\* main loop: choice '5'
MenuExit == pc = "menu" /\ Apply([Begin(Cur, "exit") EXCEPT !.pc = "exited"])

\* main loop: any other input
MenuInvalid ==
  /\ pc = "menu"
  /\ Apply([Say(Begin(Cur, "invalid"), "invalid") EXCEPT !.command_history = <<>>])

----------------------------------------------------------------------------
\* Variant 1: create_new_commit

add_files_to_stage(s, files, ok) ==
  Say(track_command(RunGit(s, "git add", files, ok), "git add"), "ok_staged")

get_git_diff_step1(s, ok) ==
  LET s1 == RunGit(s, "git diff --staged", <<>>, ok)
  IN IF ok THEN track_command(s1, "git diff --staged") ELSE s1

\* the top of the review loop prints formatted_message and prompts
ShowReview1(s) == [s EXCEPT !.pc = "review", !.displayed = s.formatted_message]

create_new_commit1(s0, addOk, diffOk, diffOut, t, sc, resp) ==
  LET s1 == add_files_to_stage(Begin(s0, "create_new_commit"), Dot, addOk)
      d  == get_git_diff1(diffOk, diffOut)
      s2 == [get_git_diff_step1(s1, diffOk) EXCEPT !.diff = d]
      s3 == [s2 EXCEPT !.commit_type = COMMIT_TYPES[t], !.scope = sc]
      fm == generate_commit_message1(d, resp)
      s4 == Generate(s3, d, resp, fm)
  IN IF ~Truthy(d) THEN ToMenu(Say(s2, "no_changes"))
     ELSE IF ~Truthy(fm) THEN ToMenu(Say(s4, "failed_generate"))
     ELSE ShowReview1([s4 EXCEPT !.formatted_message = fm,
                                 !.message_history = <<fm>>,
                                 !.current_index = 0])

CreateNewCommit1 ==
  /\ pc = "menu" /\ variant = 1
  /\ \E addOk \in BOOLEAN, diffOk \in BOOLEAN, diffOut \in DiffOutputs,
        t \in TypeChoices, sc \in Scopes, resp \in Responses1 :
       Apply(create_new_commit1(Cur, addOk, diffOk, diffOut, t, sc, resp))

\* choice 'A'
review_accept1(s0, ok) ==
  LET s1 == RunGit(Choose(s0, "A"), "git commit", s0.formatted_message, ok)
  IN ToMenu(Say(track_command(s1, "git commit"), "ok_commit"))

\* choice 'R'
review_regenerate1(s0, resp) ==
  LET new_message == generate_commit_message1(s0.diff, resp)
      s1 == Generate(Choose(s0, "R"), s0.diff, resp, new_message)
  IN IF Truthy(new_message)
     THEN ShowReview1([s1 EXCEPT
            !.formatted_message = new_message,
            !.message_history = Append(@, new_message),
            !.current_index = Len(s0.message_history)])
     ELSE ShowReview1(Say(s1, "failed_regenerate"))

\* an edit branch that shows the typed text without saving it in the history
Mut_review_edit1(s0, typed) ==
  LET text == ManualMessage(typed)
  IN ShowReview1([Choose(s0, "E") EXCEPT
       !.formatted_message = text,
       !.lastEdit = text])

\* choice 'E'
review_edit1(s0, typed) ==
  LET text == ManualMessage(typed)
  IN ShowReview1([Choose(s0, "E") EXCEPT
       !.formatted_message = text,
       !.message_history = Append(@, text),
       !.current_index = Len(s0.message_history),
       !.lastEdit = text])

\* a cancel branch that falls through to the commit of the accept branch
Mut_review_cancel1(s0) ==
  ToMenu(Say(RunGit(Choose(s0, "C"), "git commit", s0.formatted_message, TRUE),
             "cancelled"))

\* choice 'C'
review_cancel1(s0) == ToMenu(Say(Choose(s0, "C"), "cancelled"))

\* any other choice
review_invalid1(s0, c) == ShowReview1(Say(Choose(s0, c), "invalid"))

ReviewAccept1 ==
  /\ pc = "review" /\ variant = 1
  /\ \E ok \in BOOLEAN : Apply(review_accept1(Cur, ok))

ReviewRegenerate1 ==
  /\ pc = "review" /\ variant = 1
  /\ Len(message_history) < MaxHist /\ posts < MaxPosts
  /\ \E resp \in Responses1 : Apply(review_regenerate1(Cur, resp))

ReviewEdit1 ==
  /\ pc = "review" /\ variant = 1 /\ Len(message_history) < MaxHist
  /\ \E typed \in TypedTexts : Apply(review_edit1(Cur, typed))

ReviewCancel1 == pc = "review" /\ variant = 1 /\ Apply(review_cancel1(Cur))

ReviewInvalid1 ==
  /\ pc = "review" /\ variant = 1
  /\ \E c \in {"P", "N", "X"} : Apply(review_invalid1(Cur, c))

----------------------------------------------------------------------------
\* Variant 1: git management menu

\* run_git_command(...); track_command(...); print("... successfully")
TrackedGit(s, cmd, arg, ok, okTag) ==
  Say(track_command(RunGit(s, cmd, arg, ok), cmd), okTag)

\* show_command_summary at the end of an iteration of git_management_menu
ToGitMenu(s) == [s EXCEPT !.pc = "git_menu", !.summary = s.command_history]

show_status1(s, ok) == track_command(RunGit(s, "git status", <<>>, ok), "git status")

undo_changes(s, files, ok) == TrackedGit(s, "git checkout --", files, ok, "ok_undone")

push_changes1(s, branch, okCur, curOut, ok) ==
  LET s1 == IF Truthy(branch) THEN s
            ELSE RunGit(s, "git branch --show-current", <<>>, okCur)
      b  == IF Truthy(branch) THEN branch ELSE run_git_command(okCur, curOut)
  IN IF Truthy(b) THEN TrackedGit(s1, "git push", b, ok, "ok_pushed")
     ELSE Say(s1, "no_current_branch")

pull_changes1(s, ok) == TrackedGit(s, "git pull", <<>>, ok, "ok_pulled")

create_branch1(s, name, ok) ==
  TrackedGit(s, "git checkout -b", name, ok, "ok_branch_created")

switch_branch1(s, name, ok) == TrackedGit(s, "git checkout", name, ok, "ok_switched")

list_branches1(s, ok) == track_command(RunGit(s, "git branch", <<>>, ok), "git branch")

stash_changes1(s, message, ok) ==
  TrackedGit(s, "git stash push", message, ok, "ok_stashed")

apply_stash(s, stash_id, ok) ==
  TrackedGit(s, "git stash apply", stash_id, ok, "ok_stash_applied")

revert_last_commit(s, ok) == TrackedGit(s, "git revert", <<>>, ok, "ok_reverted")

InGitMenu == pc = "git_menu" /\ Len(command_history) < MaxCmds

\* main loop: choice '1'
MenuGitManagement ==
  pc = "menu" /\ Apply([Begin(Cur, "git_management_menu") EXCEPT !.pc = "git_menu"])

GitMenuStatus ==
  InGitMenu /\ \E ok \in BOOLEAN :
    Apply(ToGitMenu(show_status1(Begin(Cur, "show_status"), ok)))

GitMenuAdd ==
  InGitMenu /\ \E sub \in {"A", "S", "C"}, files \in FilesInputs, ok \in BOOLEAN :
    Apply(ToGitMenu(
      IF sub = "A" THEN add_files_to_stage(Begin(Cur, "add_files_to_stage"), Dot, ok)
      ELSE IF sub = "S"
      THEN add_files_to_stage(Begin(Cur, "add_files_to_stage"), files, ok)
      ELSE Begin(Cur, "add_files_to_stage")))

GitMenuUndo ==
  InGitMenu /\ \E sub \in {"A", "S", "C"}, files \in FilesInputs, ok \in BOOLEAN :
    Apply(ToGitMenu(
      IF sub = "A" THEN undo_changes(Begin(Cur, "undo_changes"), Dot, ok)
      ELSE IF sub = "S" THEN undo_changes(Begin(Cur, "undo_changes"), files, ok)
      ELSE Begin(Cur, "undo_changes")))

GitMenuPush ==
  InGitMenu /\ \E branch \in Names, okCur \in BOOLEAN, curOut \in Names, ok \in BOOLEAN :
    Apply(ToGitMenu(push_changes1(Begin(Cur, "push_changes"), branch, okCur, curOut, ok)))

GitMenuPull ==
  InGitMenu /\ \E ok \in BOOLEAN :
    Apply(ToGitMenu(pull_changes1(Begin(Cur, "pull_changes"), ok)))

GitMenuBranch ==
  InGitMenu /\ \E sub \in {"L", "C", "S", "R"}, name \in Names, ok \in BOOLEAN :
    Apply(ToGitMenu(
      IF sub = "L" THEN list_branches1(Begin(Cur, "list_branches"), ok)
      ELSE IF sub = "C" THEN create_branch1(Begin(Cur, "create_branch"), name, ok)
      ELSE IF sub = "S" THEN switch_branch1(Begin(Cur, "switch_branch"), name, ok)
      ELSE Begin(Cur, "branch_management")))

GitMenuStash ==
  InGitMenu /\ \E sub \in {"S", "A", "R"}, text \in Names, ok \in BOOLEAN :
    Apply(ToGitMenu(
      IF sub = "S" THEN stash_changes1(Begin(Cur, "stash_changes"), text, ok)
      ELSE IF sub = "A" THEN apply_stash(Begin(Cur, "apply_stash"), text, ok)
      ELSE Begin(Cur, "stash_management")))

GitMenuRevert ==
  InGitMenu /\ \E ok \in BOOLEAN :
    Apply(ToGitMenu(revert_last_commit(Begin(Cur, "revert_last_commit"), ok)))

\* choice '9': back to the main loop, which clears command_history
GitMenuReturn ==
  pc = "git_menu" /\ Apply([Begin(Cur, "main") EXCEPT !.pc = "menu", !.command_history = <<>>])

GitMenuInvalid ==
  pc = "git_menu" /\ Apply(ToGitMenu(Say(Begin(Cur, "invalid"), "invalid")))

----------------------------------------------------------------------------
\* Variant 1: edit_commit_manually, rename_last_commit, edit_specific_commit

startswith(str, prefix) ==
  Len(prefix) <= Len(str) /\ SubSeq(str, 1, Len(prefix)) = prefix

\* commit_id == head_commit or commit_id.startswith(head_commit)
\*   or head_commit.startswith(commit_id)
IsHeadCommit(id, head_commit) ==
  id = head_commit \/ startswith(id, head_commit) \/ startswith(head_commit, id)

\* edit_commit_manually up to the prompt for the new message
edit_commit_manually1(s, id, logOk) ==
  LET s1 == [RunGit(s, "git log -1 --pretty=%B", id, logOk) EXCEPT !.commit_id = id]
  IN IF ~logOk THEN ToMenu(Say(s1, "no_commit_message"))
     ELSE [s1 EXCEPT !.pc = "ecm_text"]

\* edit_commit_manually: the new message is read
edit_manual_text(s, typed) ==
  LET new_message == ManualMessage(typed)
      s1 == Step(s)
  IN IF ~Truthy(strip(new_message)) THEN Leave(Say(s1, "empty_message"))
     ELSE [s1 EXCEPT !.formatted_message = new_message,
                     !.displayed = new_message, !.pc = "ecm_confirm"]

\* the rebase branch: the script is written, the parent looked up, the
\* rebase run and the script removed
rebase_commit1(s, message, parentOk, rebaseOk) ==
  LET s1 == [s EXCEPT !.script = TRUE]
      s2 == RunGit(s1, "git rev-parse parent", s.commit_id, parentOk)
      s3 == track_command(RunGit(Say(s2, "starting_rebase"), "git rebase", message,
                                 rebaseOk), "git rebase")
  IN IF ~parentOk THEN [st |-> Say(s2, "no_parent_commit"), done |-> FALSE]
     ELSE [st |-> [s3 EXCEPT !.script = FALSE], done |-> TRUE]

\* edit_commit_manually: the confirmation is read
edit_manual_confirm1(s0, confirm, headOk, headOut, ok1, ok2) ==
  LET s  == Answer(s0, confirm)
      s1 == RunGit(s, "git rev-parse HEAD", <<>>, headOk)
      head_commit == run_git_command(headOk, headOut)
      amended == track_command(RunGit(s1, "git commit --amend", s.formatted_message, ok1),
                               "git commit --amend")
      rebased == rebase_commit1(s1, s.formatted_message, ok1, ok2)
  IN IF confirm \notin {"y", "s"} THEN ToMenu(s)
     ELSE IF head_commit = None
     THEN ToMenu(Say(Say(s1, "error"), "operation_failed"))
     ELSE IF IsHeadCommit(s.commit_id, head_commit)
     THEN ToMenu(Say(amended, "ok_updated"))
     ELSE IF rebased.done THEN ToMenu(Say(rebased.st, "ok_updated"))
     ELSE ToMenu(rebased.st)

EditManualText ==
  /\ pc = "ecm_text"
  /\ \E typed \in TypedTexts : Apply(edit_manual_text(Cur, typed))

EditManualConfirm1 ==
  /\ pc = "ecm_confirm" /\ variant = 1
  /\ \E confirm \in Confirms, headOk \in BOOLEAN, headOut \in HeadOutputs,
        ok1 \in BOOLEAN, ok2 \in BOOLEAN :
       Apply(edit_manual_confirm1(Cur, confirm, headOk, headOut, ok1, ok2))

\* rename_last_commit up to the prompt for the kind of edit
rename_last_commit1(s0, ok1, ok2) ==
  LET s1 == RunGit(RunGit(Begin(s0, "rename_last_commit"), "git log -1", <<>>, ok1),
                   "git log -1 --pretty=%B", <<>>, ok2)
  IN IF ~ok2 THEN ToMenu(Say(s1, "no_commit_message"))
     ELSE [s1 EXCEPT !.pc = "rl_choice"]

\* the AI-assisted branch shared by rename_last_commit and
\* edit_specific_commit: type, scope, generation, display
ai_edit1(s, d, t, sc, resp, confirmAt) ==
  LET ai_message == generate_commit_message1(d, resp)
      s1 == Generate([s EXCEPT !.commit_type = COMMIT_TYPES[t], !.scope = sc],
                     d, resp, ai_message)
  IN IF ~Truthy(ai_message) THEN ToMenu(Say(s1, "failed_generate"))
     ELSE [s1 EXCEPT !.formatted_message = ai_message,
                     !.displayed = ai_message, !.pc = confirmAt]

\* rename_last_commit: the kind of edit is read
rename_choice1(s0, edit_choice, ok, logOk, stdout, t, sc, resp) ==
  LET s == Step(s0)
      sHead == RunGit(s, "git rev-parse HEAD", <<>>, ok)
      head_commit == run_git_command(ok, ParentOutput)
      sShow == RunGit(s, "git show HEAD", <<>>, ok)
      d == run_git_command(ok, stdout)
  IN IF edit_choice = "C" THEN ToMenu(Say(s, "cancelled"))
     ELSE IF edit_choice = "M"
     THEN IF Truthy(head_commit)
          THEN edit_commit_manually1(sHead, head_commit, logOk)
          ELSE ToMenu(sHead)
     ELSE IF ~Truthy(d) THEN ToMenu(Say(sShow, "no_diff"))
     ELSE ai_edit1([sShow EXCEPT !.diff = d], d, t, sc, resp, "rl_confirm")

\* rename_last_commit: the confirmation is read
\* a rename_last_commit that amends whatever the confirmation answer is
Mut_rename_confirm1(s0, confirm, ok) ==
  LET s == Answer(s0, confirm)
  IN ToMenu(Say(track_command(
       RunGit(s, "git commit --amend", s.formatted_message, ok),
       "git commit --amend"), "ok_updated"))

rename_confirm1(s0, confirm, ok) ==
  LET s == Answer(s0, confirm)
  IN IF confirm \in {"y", "s"}
     THEN ToMenu(Say(track_command(
            RunGit(s, "git commit --amend", s.formatted_message, ok),
            "git commit --amend"), "ok_updated"))
     ELSE ToMenu(s)

RenameLastCommit1 ==
  /\ pc = "menu" /\ variant = 1
  /\ \E ok1 \in BOOLEAN, ok2 \in BOOLEAN : Apply(rename_last_commit1(Cur, ok1, ok2))

RenameChoice1 ==
  /\ pc = "rl_choice" /\ variant = 1
  /\ \E edit_choice \in {"C", "M", "A"}, ok \in BOOLEAN, logOk \in BOOLEAN,
        stdout \in DiffOutputs, t \in TypeChoices, sc \in Scopes,
        resp \in Responses1 :
       Apply(rename_choice1(Cur, edit_choice, ok, logOk, stdout, t, sc, resp))

RenameConfirm1 ==
  /\ pc = "rl_confirm" /\ variant = 1
  /\ \E confirm \in Confirms, ok \in BOOLEAN : Apply(rename_confirm1(Cur, confirm, ok))

\* edit_specific_commit up to the prompt for the commit id
edit_specific_commit1(s0, ok) ==
  [RunGit(Begin(s0, "edit_specific_commit"), "git log --oneline", <<>>, ok)
     EXCEPT !.pc = "esc_id"]

\* get_commit_by_id (variant 1): the state after its git commands and the
\* diff it returns, found = FALSE when it returns None
get_commit_by_id1(s, id, okVerify, okLog, okShow, stdout) ==
  LET s1 == RunGit(s, "git rev-parse --verify", id, okVerify)
      s2 == RunGit(s1, "git log -1 --pretty=%B", id, okLog)
      s3 == RunGit(s2, "git show", id, okShow)
      d  == run_git_command(okShow, stdout)
  IN IF ~okVerify THEN [st |-> Say(s1, "commit_not_found"), found |-> FALSE, diff |-> <<>>]
     ELSE [st |-> s3, found |-> TRUE, diff |-> IF Truthy(d) THEN d ELSE <<>>]

\* edit_specific_commit: the commit id is read
edit_specific_id1(s0, id, okVerify, okLog, okShow, stdout) ==
  LET s == Step(s0)
      commit_info == get_commit_by_id1(s, id, okVerify, okLog, okShow, stdout)
  IN IF ~Truthy(id) THEN ToMenu(Say(s, "cancelled"))
     ELSE IF ~commit_info.found THEN ToMenu(commit_info.st)
     ELSE [commit_info.st EXCEPT !.commit_id = id, !.diff = commit_info.diff,
                                 !.pc = "esc_choice"]

\* edit_specific_commit: the kind of edit is read
edit_specific_choice1(s0, edit_choice, ok, t, sc, resp) ==
  LET s == Step(s0)
  IN IF edit_choice = "C" THEN ToMenu(Say(s, "cancelled"))
     ELSE IF edit_choice = "M" THEN edit_commit_manually1(s, s.commit_id, ok)
     ELSE ai_edit1(s, s.diff, t, sc, resp, "esc_confirm")

\* edit_specific_commit: the confirmation is read; nothing catches the
\* TypeError of commit_id.startswith(None)
edit_specific_confirm1(s0, confirm, headOk, headOut, ok1, ok2) ==
  LET s  == Answer(s0, confirm)
      s1 == RunGit(s, "git rev-parse HEAD", <<>>, headOk)
      head_commit == run_git_command(headOk, headOut)
      amended == track_command(RunGit(s1, "git commit --amend", s.formatted_message, ok1),
                               "git commit --amend")
      rebased == rebase_commit1(s1, s.formatted_message, ok1, ok2)
  IN IF confirm \notin {"y", "s"} THEN ToMenu(s)
     ELSE IF head_commit = None THEN Raise(s1, "TypeError")
     ELSE IF IsHeadCommit(s.commit_id, head_commit)
     THEN ToMenu(Say(amended, "ok_updated"))
     ELSE IF rebased.done THEN ToMenu(Say(rebased.st, "ok_updated"))
     ELSE ToMenu(rebased.st)

EditSpecificCommit1 ==
  /\ pc = "menu" /\ variant = 1
  /\ \E ok \in BOOLEAN : Apply(edit_specific_commit1(Cur, ok))

EditSpecificId1 ==
  /\ pc = "esc_id" /\ variant = 1
  /\ \E id \in CommitIds, okVerify \in BOOLEAN, okLog \in BOOLEAN,
        okShow \in BOOLEAN, stdout \in DiffOutputs :
       Apply(edit_specific_id1(Cur, id, okVerify, okLog, okShow, stdout))

EditSpecificChoice1 ==
  /\ pc = "esc_choice" /\ variant = 1
  /\ \E edit_choice \in {"C", "M", "A"}, ok \in BOOLEAN, t \in TypeChoices,
        sc \in Scopes, resp \in Responses1 :
       Apply(edit_specific_choice1(Cur, edit_choice, ok, t, sc, resp))

EditSpecificConfirm1 ==
  /\ pc = "esc_confirm" /\ variant = 1
  /\ \E confirm \in Confirms, headOk \in BOOLEAN, headOut \in HeadOutputs,
        ok1 \in BOOLEAN, ok2 \in BOOLEAN :
       Apply(edit_specific_confirm1(Cur, confirm, headOk, headOut, ok1, ok2))

----------------------------------------------------------------------------
\* Variant 2: generate_commit_message and the assembly of the message

\* the keys of the JSON object the prompt asks for
FieldKey ==
  [type |-> <<"t","y","p","e">>, scope |-> <<"s","c","o","p","e">>,
   subject |-> <<"s","u","b","j","e","c","t">>, body |-> <<"b","o","d","y">>,
   breaking |-> <<"b","r","e","a","k","i","n","g">>,
   footer |-> <<"f","o","o","t","e","r">>]

\* "BREAKING CHANGE:" as the fallback parser looks for it
BreakingKey == SubSeq(BreakingMarker, 1, Len(BreakingMarker) - 1)

\* response.json()["choices"][0]["message"]["content"].strip('"\'\'').strip()
ai_response_of(content) == strip(strip_chars(content, {"\"", "'"}))

\* the text between the first '{' and the last '}', decoded
json_part(ai_response) ==
  LET json_start == find(ai_response, "{")
      json_end == rfind(ai_response, "}")
  IN IF json_start >= 0 /\ json_end >= 0
     THEN json_loads(Slice(ai_response, json_start, json_end + 1))
     ELSE JsonError

\* commit_data after the six setdefault calls
with_defaults(members) ==
  [f \in FieldNames |->
     IF HasKey(members, FieldKey[f]) THEN GetKey(members, FieldKey[f]) ELSE <<>>]

\* lines[a:b] of a list
Lines(lines, a, b) == SubSeq(lines, a + 1, b)

RECURSIVE body_start_from(_, _)
body_start_from(lines, i) ==
  IF i < Len(lines) /\ strip(lines[i + 1]) = <<>>
  THEN body_start_from(lines, i + 1) ELSE i

RECURSIVE footer_start_from(_, _)
footer_start_from(lines, i) ==
  IF i >= Len(lines) THEN Len(lines)
  ELSE IF strip(lines[i + 1]) = <<>> /\ i + 1 < Len(lines)
          /\ strip(lines[i + 2]) # <<>>
  THEN i + 1
  ELSE footer_start_from(lines, i + 1)

\* the fallback of generate_commit_message (variant 2): the components are
\* cut out of the text by hand
fallback_parse(ai_response) ==
  LET lines == split(ai_response, "\n")
      header == lines[1]
      has_colon == find(header, ":") >= 0
      header_parts == split1(header, ":")
      type_scope == strip(header_parts[1])
      has_scope == find(type_scope, "(") >= 0 /\ find(type_scope, ")") >= 0
      body_start == body_start_from(lines, 1)
      footer_start == footer_start_from(lines, body_start)
      footer_text == strip(join(NL, Lines(lines, footer_start, Len(lines))))
      has_footer == Len(lines) > 1 /\ footer_start < Len(lines)
      has_breaking == has_footer /\ findsub(footer_text, BreakingKey) >= 0
      breaking_parts == splitsub1(footer_text, BreakingKey)
  IN [type     |-> IF ~has_colon THEN <<>>
                   ELSE IF has_scope THEN strip(split1(type_scope, "(")[1])
                   ELSE type_scope,
      scope    |-> IF has_colon /\ has_scope
                   THEN strip(split1(split1(type_scope, "(")[2], ")")[1])
                   ELSE <<>>,
      subject  |-> IF has_colon THEN strip(header_parts[2]) ELSE <<>>,
      body     |-> IF Len(lines) > 1 /\ body_start < footer_start
                   THEN strip(join(NL, Lines(lines, body_start, footer_start)))
                   ELSE <<>>,
      breaking |-> IF has_breaking THEN strip(breaking_parts[2]) ELSE <<>>,
      footer   |-> IF has_breaking THEN strip(breaking_parts[1])
                   ELSE IF has_footer THEN footer_text
                   ELSE <<>>]

\* which branch handles a reply that arrived
reply_path(content) ==
  IF json_part(ai_response_of(content)).ok THEN "json" ELSE "fallback"

\* a parser that always cuts the components out by hand
Mut_parse_reply(content) == fallback_parse(ai_response_of(content))

\* what generate_commit_message (variant 2) makes of the content of a reply
parse_reply(content) ==
  IF json_part(ai_response_of(content)).ok
  THEN with_defaults(json_part(ai_response_of(content)).members)
  ELSE fallback_parse(ai_response_of(content))

\* generate_commit_message (variant 2): the returned record
generate_commit_message2(d, resp) ==
  IF ~Truthy(d) THEN [EmptyData EXCEPT !.subject = NoChangesText]
  ELSE IF resp.kind = "error" THEN EmptyData
  ELSE IF resp.kind = "text" THEN parse_reply(resp.content)
  ELSE [f \in FieldNames |-> IF f \in resp.has THEN resp.obj[f] ELSE <<>>]

\* a header that puts the scope next to the type as it is
Mut_Header2(cd) == cd.type \o cd.scope \o <<":", " ">> \o cd.subject

\* header = type, "(scope)" when there is a scope, ": ", subject
Header2(cd) ==
  cd.type \o (IF Truthy(cd.scope) THEN <<"(">> \o cd.scope \o <<")">> ELSE <<>>)
          \o <<":", " ">> \o cd.subject

BreakingBlock2(cd) ==
  IF Truthy(cd.breaking)
  THEN NL \o NL \o BreakingMarker \o cd.breaking
  ELSE <<>>

FooterBlock2(cd) == IF Truthy(cd.footer) THEN NL \o NL \o cd.footer ELSE <<>>

\* formatted_message, as built for git commit -m
Assemble2(cd) ==
  Header2(cd) \o (IF Truthy(cd.body) THEN NL \o NL \o cd.body ELSE <<>>)
              \o BreakingBlock2(cd) \o FooterBlock2(cd)

\* the text the review prompt prints: print(header), print("\n" + body),
\* print(footer_text), each print ending its text with a newline
Display2(cd) ==
  LET footer_text == BreakingBlock2(cd) \o FooterBlock2(cd)
  IN join(NL, <<Header2(cd)>>
              \o (IF Truthy(cd.body) THEN <<NL \o cd.body>> ELSE <<>>)
              \o (IF Truthy(footer_text) THEN <<footer_text>> ELSE <<>>))

RECURSIVE replace(_, _, _)
replace(str, old, new) ==
  IF str = <<>> THEN <<>>
  ELSE (IF Head(str) = old THEN <<new>> ELSE <<Head(str)>>)
       \o replace(Tail(str), old, new)

\* input(...).strip() or current
TypedOr(typed, current) == IF Truthy(strip(typed)) THEN strip(typed) ELSE current

EditFields(current_data, typed) ==
  [type     |-> TypedOr(typed.type, current_data.type),
   scope    |-> TypedOr(typed.scope, current_data.scope),
   subject  |-> TypedOr(typed.subject, current_data.subject),
   body     |-> IF Truthy(strip(typed.body))
                THEN replace(strip(typed.body), "|", "\n")
                ELSE current_data.body,
   breaking |-> TypedOr(typed.breaking, current_data.breaking),
   footer   |-> TypedOr(typed.footer, current_data.footer)]

\* message_history[:current_index + 1] when current_index is not the last
Truncate(history, index) ==
  IF index < Len(history) - 1 THEN SubSeq(history, 1, index + 1) ELSE history

----------------------------------------------------------------------------
\* Variant 2: main, main_ai_commit

main2_ai(s) ==
  IF envFile = "missing" \/ ~HasApiKey
  THEN [Say(Begin(s, "main"), "config_error") EXCEPT !.pc = "exited"]
  ELSE [Begin(s, "main") EXCEPT !.pc = "ai_menu"]

Main2 == pc = "start" /\ variant = 2 /\ argv.command = "none" /\ Apply(main2_ai(Cur))

\* main_ai_commit: a choice outside 1..3 is asked again
AiMenuInvalid ==
  pc = "ai_menu" /\ Apply(Say(Begin(Cur, "invalid"), "invalid"))

\* stage_changes: subprocess.run without check
stage_changes(s, files, all_files, oks) ==
  IF all_files
  THEN Say(Say(Git(s, "git add", Dot, oks[1]), "ok_staged"), "commands_executed")
  ELSE IF files # <<>>
  THEN LET RECURSIVE AddEach(_, _)
           AddEach(st, i) ==
             IF i > Len(files) THEN st
             ELSE AddEach(Git(st, "git add", files[i], oks[i]), i + 1)
       IN Say(Say(AddEach(s, 1), "ok_staged"), "commands_executed")
  ELSE Say(s, "no_files_specified")

\* show_status
show_status2(s, ok1, ok2) ==
  Say(Git(Git(s, "git status", <<>>, ok1), "git branch", <<>>, ok2), "commands_executed")

\* main: the stage subcommand
main2_stage(s, files, all, oks) ==
  IF all \/ files = <<>>
  THEN ToExit(stage_changes(Begin(s, "stage"), <<>>, TRUE, oks))
  ELSE ToExit(stage_changes(Begin(s, "stage"), files, FALSE, oks))

Main2Stage ==
  /\ pc = "start" /\ variant = 2 /\ argv.command = "stage"
  /\ \E oks \in [1..2 -> BOOLEAN] :
       Apply(main2_stage(Cur, argv.files, argv.all, oks))

Main2Status ==
  /\ pc = "start" /\ variant = 2 /\ argv.command = "status"
  /\ \E ok1 \in BOOLEAN, ok2 \in BOOLEAN :
       Apply(ToExit(show_status2(Begin(Cur, "status"), ok1, ok2)))

----------------------------------------------------------------------------
\* Variant 2: create_new_commit

\* get_git_diff (variant 2)
get_git_diff2(ok, stdout) == IF ok THEN strip(stdout) ELSE <<>>

\* the head of the review loop: generate, store, print, prompt
LoopHead2(s0, resp) ==
  LET commit_data == generate_commit_message2(s0.diff, resp)
      s1 == Generate(s0, s0.diff, resp, commit_data)
      history == Append(IF s0.current_index < 0 THEN s0.message_history
                        ELSE Truncate(s0.message_history, s0.current_index),
                        commit_data)
      index == IF s0.current_index < 0 THEN 0 ELSE Len(history) - 1
      current_data == history[index + 1]
  IN IF ~Truthy(commit_data.subject)
     THEN ToExit(Say(s1, "failed_generate"))
     ELSE [s1 EXCEPT !.message_history = history,
                     !.current_index = index,
                     !.displayed = Display2(current_data),
                     !.formatted_message = Assemble2(current_data),
                     !.pc = "review"]

create_new_commit2(s0, addOk, diffOk, diffOut, resp) ==
  LET s1 == stage_changes(Begin(s0, "create_new_commit"), <<>>, TRUE, <<addOk>>)
      d  == get_git_diff2(diffOk, diffOut)
      s2 == [Git(s1, "git diff --staged", <<>>, diffOk) EXCEPT !.diff = d]
      s3 == IF diffOk THEN s2 ELSE Say(s2, "diff_error")
  IN IF ~Truthy(d) THEN ToExit(Say(s3, "no_changes"))
     ELSE LoopHead2(s3, resp)

CreateNewCommit2 ==
  /\ pc = "ai_menu"
  /\ \E addOk \in BOOLEAN, diffOk \in BOOLEAN, diffOut \in DiffOutputs,
        resp \in Responses2 :
       Apply(create_new_commit2(Cur, addOk, diffOk, diffOut, resp))

\* choice 'A'
review_accept2(s0, ok) ==
  LET s1 == Git(Choose(s0, "A"), "git commit", s0.formatted_message, ok)
  IN ToExit(Say(s1, IF ok THEN "ok_commit" ELSE "commit_error"))

\* choice 'R'
review_regenerate2(s0, resp) == LoopHead2(Choose(s0, "R"), resp)

\* choice 'P': message_history[current_index]["formatted"] names a key
\* that no stored record has
review_previous2(s0, resp) ==
  IF s0.current_index > 0
  THEN Raise([Choose(s0, "P") EXCEPT !.current_index = @ - 1], "KeyError")
  ELSE LoopHead2(Say(Choose(s0, "P"), "invalid"), resp)

\* choice 'N'
review_next2(s0, resp) ==
  IF s0.current_index < Len(s0.message_history) - 1
  THEN Raise([Choose(s0, "N") EXCEPT !.current_index = @ + 1], "KeyError")
  ELSE LoopHead2(Say(Choose(s0, "N"), "invalid"), resp)

\* choice 'E'
review_edit2(s0, typed, resp) ==
  LET current_data == s0.message_history[s0.current_index + 1]
      edited_data == EditFields(current_data, typed)
      history == Append(Truncate(s0.message_history, s0.current_index),
                        edited_data)
  IN LoopHead2([Choose(s0, "E") EXCEPT
                  !.message_history = history,
                  !.current_index = Len(history) - 1,
                  !.lastEdit = edited_data], resp)

\* choice 'C'
review_cancel2(s0) == ToExit(Say(Choose(s0, "C"), "cancelled"))

\* any other choice
review_invalid2(s0, resp) == LoopHead2(Say(Choose(s0, "X"), "invalid"), resp)

InReview2 == pc = "review" /\ variant = 2

MayGrow2 == Len(message_history) < MaxHist /\ posts < MaxPosts

ReviewAccept2 == InReview2 /\ \E ok \in BOOLEAN : Apply(review_accept2(Cur, ok))

ReviewRegenerate2 ==
  InReview2 /\ MayGrow2
  /\ \E resp \in Responses2 : Apply(review_regenerate2(Cur, resp))

ReviewPrevious2 ==
  InReview2 /\ MayGrow2
  /\ \E resp \in Responses2 : Apply(review_previous2(Cur, resp))

ReviewNext2 ==
  InReview2 /\ MayGrow2
  /\ \E resp \in Responses2 : Apply(review_next2(Cur, resp))

ReviewEdit2 ==
  InReview2 /\ MayGrow2
  /\ \E typed \in EditInputs2, resp \in Responses2 :
       Apply(review_edit2(Cur, typed, resp))

ReviewCancel2 == InReview2 /\ Apply(review_cancel2(Cur))

ReviewInvalid2 ==
  InReview2 /\ MayGrow2
  /\ \E resp \in Responses2 : Apply(review_invalid2(Cur, resp))

----------------------------------------------------------------------------
\* Variant 2: edit_commit_manually, rename_last_commit, edit_specific_commit

\* header, body, "BREAKING CHANGE: " + breaking, footer, as rename_last_commit
\* and edit_specific_commit join them
AssembleEdited2(cd) ==
  Header2(cd) \o (IF Truthy(cd.body) THEN NL \o NL \o cd.body ELSE <<>>)
              \o (IF Truthy(cd.breaking)
                  THEN NL \o NL \o BreakingMarker \o cd.breaking ELSE <<>>)
              \o FooterBlock2(cd)

\* except subprocess.CalledProcessError in edit_commit_manually
ManualFailed2(s) == ToExit(Say(Say(s, "error"), "operation_failed"))

\* except subprocess.CalledProcessError in rename_last_commit
RenameFailed2(s) == ToExit(Say(Say(s, "error"), "need_one_commit"))

\* edit_commit_manually up to the prompt for the new message
edit_commit_manually2(s, id, logOk) ==
  LET s1 == [Git(s, "git log -1 --pretty=%B", id, logOk) EXCEPT !.commit_id = id]
  IN IF ~logOk THEN ManualFailed2(s1) ELSE [s1 EXCEPT !.pc = "ecm_text"]

\* edit_commit_manually: the confirmation is read
edit_manual_confirm2(s0, confirm, headOk, headOut, ok1, ok2) ==
  LET s  == Answer(s0, confirm)
      s1 == Git(s, "git rev-parse HEAD", <<>>, headOk)
      amended == Git(s1, "git commit --amend", s.formatted_message, ok1)
      s2 == Git([s1 EXCEPT !.script = TRUE], "git rev-parse parent", s.commit_id, ok1)
      s3 == Git(Say(s2, "starting_rebase"), "git rebase", s.formatted_message, ok2)
  IN IF confirm \notin {"y", "s"} THEN ToExit(s)
     ELSE IF ~headOk THEN ManualFailed2(s1)
     ELSE IF IsHeadCommit(s.commit_id, headOut)
     THEN IF ok1 THEN ToExit(Say(amended, "ok_updated")) ELSE ManualFailed2(amended)
     ELSE IF ~ok1 THEN ManualFailed2(s2)
     ELSE IF ~ok2 THEN ManualFailed2(s3)
     ELSE ToExit(Say([s3 EXCEPT !.script = FALSE], "ok_updated"))

EditManualConfirm2 ==
  /\ pc = "ecm_confirm" /\ variant = 2
  /\ \E confirm \in Confirms, headOk \in BOOLEAN, headOut \in HeadOutputs,
        ok1 \in BOOLEAN, ok2 \in BOOLEAN :
       Apply(edit_manual_confirm2(Cur, confirm, headOk, headOut, ok1, ok2))

\* the AI-assisted branch shared by rename_last_commit and
\* edit_specific_commit: generation, the six field prompts, display
ai_edit2(s, d, resp, typed, confirmAt) ==
  LET commit_data == generate_commit_message2(d, resp)
      s1 == Generate(s, d, resp, commit_data)
      edited == EditFields(commit_data, typed)
  IN IF ~Truthy(commit_data.subject) THEN ToExit(Say(s1, "failed_generate"))
     ELSE [s1 EXCEPT !.formatted_message = AssembleEdited2(edited),
                     !.displayed = AssembleEdited2(edited), !.pc = confirmAt]

\* rename_last_commit up to the prompt for the kind of edit
rename_last_commit2(s0, ok1, ok2) ==
  LET s1 == Git(Begin(s0, "rename_last_commit"), "git log -1", <<>>, ok1)
      s2 == Git(s1, "git log -1 --pretty=%B", <<>>, ok2)
  IN IF ~ok1 THEN RenameFailed2(s1)
     ELSE IF ~ok2 THEN RenameFailed2(s2)
     ELSE [s2 EXCEPT !.pc = "rl_choice"]

\* rename_last_commit: the kind of edit is read
rename_choice2(s0, edit_choice, ok, ok2, stdout, resp, typed) ==
  LET s == Step(s0)
      sHead == Git(s, "git rev-parse HEAD", <<>>, ok)
      sShow == Git(s, "git show HEAD", <<>>, ok)
      sDiff == Git(sShow, "git diff HEAD~1 HEAD", <<>>, ok2)
  IN IF edit_choice = "C" THEN ToExit(Say(s, "cancelled"))
     ELSE IF edit_choice = "M"
     THEN IF ok THEN edit_commit_manually2(sHead, ParentOutput, ok2)
          ELSE RenameFailed2(sHead)
     ELSE IF ok THEN ai_edit2([sShow EXCEPT !.diff = stdout], stdout, resp, typed,
                              "rl_confirm")
     ELSE IF ok2 THEN ai_edit2([sDiff EXCEPT !.diff = stdout], stdout, resp, typed,
                               "rl_confirm")
     ELSE RenameFailed2(sDiff)

\* rename_last_commit: the confirmation is read
rename_confirm2(s0, confirm, ok) ==
  LET s == Answer(s0, confirm)
      s1 == Git(s, "git commit --amend", s.formatted_message, ok)
  IN IF confirm \notin {"y", "s"} THEN ToExit(s)
     ELSE IF ok THEN ToExit(Say(s1, "ok_updated"))
     ELSE RenameFailed2(s1)

RenameLastCommit2 ==
  /\ pc = "ai_menu"
  /\ \E ok1 \in BOOLEAN, ok2 \in BOOLEAN : Apply(rename_last_commit2(Cur, ok1, ok2))

RenameChoice2 ==
  /\ pc = "rl_choice" /\ variant = 2
  /\ \E edit_choice \in {"C", "M", "A"}, ok \in BOOLEAN, ok2 \in BOOLEAN,
        stdout \in DiffOutputs, resp \in Responses2, typed \in EditInputs2 :
       Apply(rename_choice2(Cur, edit_choice, ok, ok2, stdout, resp, typed))

RenameConfirm2 ==
  /\ pc = "rl_confirm" /\ variant = 2
  /\ \E confirm \in Confirms, ok \in BOOLEAN : Apply(rename_confirm2(Cur, confirm, ok))

\* edit_specific_commit up to the prompt for the commit id; nothing in
\* edit_specific_commit, main_ai_commit or main catches CalledProcessError
edit_specific_commit2(s0, ok) ==
  LET s1 == Git(Begin(s0, "edit_specific_commit"), "git log --oneline", <<>>, ok)
  IN IF ok THEN [s1 EXCEPT !.pc = "esc_id"] ELSE Raise(s1, "CalledProcessError")

\* get_commit_by_id (variant 2): oks are the exit statuses of rev-parse
\* --verify, log, show, rev-parse of the parent and diff
get_commit_by_id2(s, id, oks, stdout) ==
  LET s1 == Git(s, "git rev-parse --verify", id, oks[1])
      s2 == Git(s1, "git log -1 --pretty=%B", id, oks[2])
      s3 == Git(s2, "git show", id, oks[3])
      s4 == Git(s3, "git rev-parse parent", id, oks[4])
      s5 == Git(s4, "git diff parent", id, oks[5])
      NotFound(st) == [st |-> Say(Say(st, "error"), "commit_not_found"),
                       found |-> FALSE, diff |-> <<>>]
  IN IF ~oks[1] THEN NotFound(s1)
     ELSE IF ~oks[2] THEN NotFound(s2)
     ELSE IF oks[3] THEN [st |-> s3, found |-> TRUE, diff |-> stdout]
     ELSE IF ~oks[4] THEN NotFound(s4)
     ELSE IF ~oks[5] THEN NotFound(s5)
     ELSE [st |-> s5, found |-> TRUE, diff |-> stdout]

\* edit_specific_commit: the commit id is read
edit_specific_id2(s0, id, oks, stdout) ==
  LET s == Step(s0)
      commit_info == get_commit_by_id2(s, id, oks, stdout)
  IN IF ~Truthy(id) THEN ToExit(Say(s, "cancelled"))
     ELSE IF ~commit_info.found THEN ToExit(commit_info.st)
     ELSE [commit_info.st EXCEPT !.commit_id = id, !.diff = commit_info.diff,
                                 !.pc = "esc_choice"]

\* edit_specific_commit: the kind of edit is read
edit_specific_choice2(s0, edit_choice, ok, resp, typed) ==
  LET s == Step(s0)
  IN IF edit_choice = "C" THEN ToExit(Say(s, "cancelled"))
     ELSE IF edit_choice = "M" THEN edit_commit_manually2(s, s.commit_id, ok)
     ELSE ai_edit2(s, s.diff, resp, typed, "esc_confirm")

\* edit_specific_commit: the confirmation is read
edit_specific_confirm2(s0, confirm, headOk, headOut, ok1, ok2) ==
  LET s  == Answer(s0, confirm)
      s1 == Git(s, "git rev-parse HEAD", <<>>, headOk)
      amended == Git(s1, "git commit --amend", s.formatted_message, ok1)
      s2 == Git([s1 EXCEPT !.script = TRUE], "git rev-parse parent", s.commit_id, ok1)
      s3 == Git(Say(s2, "starting_rebase"), "git rebase", s.formatted_message, ok2)
  IN IF confirm \notin {"y", "s"} THEN ToExit(s)
     ELSE IF ~headOk THEN Raise(s1, "CalledProcessError")
     ELSE IF IsHeadCommit(s.commit_id, headOut)
     THEN IF ok1 THEN ToExit(Say(amended, "ok_updated"))
          ELSE Raise(amended, "CalledProcessError")
     ELSE IF ~ok1 THEN Raise(s2, "CalledProcessError")
     ELSE IF ~ok2 THEN Raise(s3, "CalledProcessError")
     ELSE ToExit(Say([s3 EXCEPT !.script = FALSE], "ok_updated"))

EditSpecificCommit2 ==
  /\ pc = "ai_menu"
  /\ \E ok \in BOOLEAN : Apply(edit_specific_commit2(Cur, ok))

EditSpecificId2 ==
  /\ pc = "esc_id" /\ variant = 2
  /\ \E id \in CommitIds, oks \in [1..5 -> BOOLEAN], stdout \in DiffOutputs :
       Apply(edit_specific_id2(Cur, id, oks, stdout))

EditSpecificChoice2 ==
  /\ pc = "esc_choice" /\ variant = 2
  /\ \E edit_choice \in {"C", "M", "A"}, ok \in BOOLEAN, resp \in Responses2,
        typed \in EditInputs2 :
       Apply(edit_specific_choice2(Cur, edit_choice, ok, resp, typed))

EditSpecificConfirm2 ==
  /\ pc = "esc_confirm" /\ variant = 2
  /\ \E confirm \in Confirms, headOk \in BOOLEAN, headOut \in HeadOutputs,
        ok1 \in BOOLEAN, ok2 \in BOOLEAN :
       Apply(edit_specific_confirm2(Cur, confirm, headOk, headOut, ok1, ok2))

----------------------------------------------------------------------------
\* Properties of the review loop of create_new_commit

Last(seq) == seq[Len(seq)]

IsCommit(run) == run.cmd = "git commit"

Commits(runs) == SelectSeq(runs, IsCommit)

\* the text a draft is presented as at the review prompt
ShownText(draft) == IF variant = 1 THEN draft ELSE Display2(draft)

IsEmptyResult(result) == result = <<>> \/ result = EmptyData

ReviewChoices == {"A", "R", "E", "C", "P", "N", "X"}

\* C1: after the user chose edit and entered replacement text, the loop is
\* back at the review prompt and the message presented there is the edited
\* text.
C1_EditIsReviewed ==
  lastChoice = "E" => (pc = "review" /\ displayed = ShownText(lastEdit))

\* C2: regenerate, edit, previous/next and unrecognised input always lead
\* back to a review prompt; they end neither the loop nor the process.
C2_OnlyAcceptOrCancelEnds ==
  lastChoice \in {"R", "E", "P", "N", "X"} => pc = "review"

\* C3: accept invokes exactly one git commit, whose message is exactly the
\* message most recently displayed for review, and ends the loop; no other
\* choice invokes a commit.
C3_AcceptCommitsDisplayed ==
  /\ lastChoice = "A" =>
        /\ pc # "review"
        /\ Len(Commits(gitRuns)) = 1
        /\ Commits(gitRuns)[1].arg = displayed
  /\ (op = "create_new_commit" /\ lastChoice # "A") => Commits(gitRuns) = <<>>

\* C4: cancel is a terminal state and no error: the step that reads cancel
\* ends the flow, sends no request and leaves no git commit invoked.
C4_CancelIsTerminal ==
  [][lastChoice' = "C" =>
       /\ pc' \in {"menu", "exited"}
       /\ exc' = ""
       /\ out' = {"cancelled"}
       /\ Commits(gitRuns') = <<>>
       /\ gitRuns' = gitRuns
       /\ posts' = posts]_vars

C4_Witness ==
  lastChoice = "C" /\ pc \in {"menu", "exited"} /\ posts >= 2

\* C5: when a regeneration returns an empty result, the failure is reported
\* and the loop stays at the review prompt with the draft unchanged.
C5_FailedRegenerateKeepsDraft ==
  [][(pc = "review" /\ lastChoice' = "R" /\ posts' = posts + 1
        /\ IsEmptyResult(lastResult')) =>
       /\ pc' = "review"
       /\ displayed' = displayed
       /\ message_history' = message_history
       /\ current_index' = current_index
       /\ out' \cap {"failed_regenerate", "failed_generate"} # {}]_vars

\* C6: a request is sent only for the initial draft and once per regenerate
\* choice; no other choice and no failure sends one.
C6_RequestsOnlyOnDemand ==
  [][posts' > posts =>
       /\ posts' = posts + 1
       /\ lastChoice' \in {"none", "R"}]_vars

----------------------------------------------------------------------------
\* Properties of error handling and startup

\* the commands that create or rewrite a commit
IsWrite(run) == run.cmd \in {"git commit", "git commit --amend", "git rebase"}

Writes(runs) == SelectSeq(runs, IsWrite)

FailureTags == {"failed_generate", "failed_regenerate"}

OkTags ==
  {"ok_staged", "ok_undone", "ok_pushed", "ok_pulled", "ok_branch_created",
   "ok_switched", "ok_stashed", "ok_stash_applied", "ok_reverted", "ok_commit",
   "ok_updated"}

\* the step reported the failed request, got the empty result and wrote
\* nothing
ErrorHandled ==
  /\ IsEmptyResult(lastResult)
  /\ exc = ""
  /\ "generate_error" \in out
  /\ out \cap FailureTags # {}
  /\ Writes(gitRuns) = <<>>

\* C7, as stated: when the request of generate_commit_message fails, no
\* exception propagates, the error is printed, the result is empty, and the
\* calling flow reports the failure and returns without committing.
C7_FailedRequestReturns ==
  genStatus = "error" => (ErrorHandled /\ pc \in {"menu", "exited"})

\* C7, amended: when the request of generate_commit_message fails, no
\* exception propagates, the error is printed, the result is empty, and the
\* calling flow reports the failure and commits nothing in that step; it
\* returns, except at the regenerate choice of variant 1, where it stays at
\* the review prompt.
C7_FailedRequestHandled ==
  genStatus = "error" =>
    /\ ErrorHandled
    /\ \/ pc \in {"menu", "exited"}
       \/ variant = 1 /\ op = "create_new_commit" /\ lastChoice = "R" /\ pc = "review"

C7_Witness ==
  genStatus = "error" /\ op = "edit_specific_commit" /\ pc \in {"menu", "exited"}

\* C8: when a git command exits non-zero the error is printed and the
\* operation aborts: the failed command is the last one the operation runs,
\* it is not listed among the commands done, and no success confirmation is
\* printed.
C8_FailedGitAborts ==
  \A i \in 1..Len(gitRuns) :
    ~gitRuns[i].ok =>
      /\ i = Len(gitRuns)
      /\ out \cap {"git_error", "error", "diff_error"} # {}
      /\ out \cap OkTags = {}
      /\ pc = "menu" => \A j \in 1..Len(summary) : summary[j] # gitRuns[i].cmd

\* C9: a failing git command never terminates the process: no exception
\* escapes, and the main loop of variant 1 ends only by the exit choice.
C9_GitFailureNeverTerminates ==
  /\ AnyFailed(gitRuns) => (pc # "crashed" /\ exc = "")
  /\ (variant = 1 /\ pc = "exited") => op \in {"main", "exit"}

\* C10, as stated: when the .env file is missing or holds no QWEN_API_KEY,
\* the run prints a message and ends before any git subprocess or remote
\* request.
C10_StartupFailsWithoutEnvKey ==
  (envFile \in {"missing", "nokey"} /\ pc # "start") =>
    /\ pc = "exited" /\ "config_error" \in out
    /\ ~gitEver /\ ~postEver

\* C10, amended: when the .env file is missing, or neither it nor the
\* process environment holds QWEN_API_KEY, no remote request is ever made,
\* and a run of variant 1 or of variant 2 without a subcommand prints a
\* message and ends before any git subprocess; the git subcommands of
\* variant 2 never read the key.
C10_StartupFailsWithoutKey ==
  (envFile = "missing" \/ ~HasApiKey) =>
    /\ ~postEver
    /\ (variant = 1 \/ argv.command = "none") =>
         /\ ~gitEver
         /\ pc # "start" => (pc = "exited" /\ "config_error" \in out)

C10_Witness ==
  /\ pc = "exited" /\ variant = 1
  /\ envFile = "nokey" /\ envVar = "unset"
  /\ "config_error" \in out

----------------------------------------------------------------------------
\* Properties of the draft history and of the rebase script

\* C11: with at least two drafts stored, previous (when not at the first
\* draft) makes the next review show the preceding draft, and next (when not
\* at the latest draft) makes it show the following draft; the flow goes on.
C11_UndoRedo ==
  [][/\ (/\ pc = "review" /\ lastChoice' = "P"
         /\ Len(message_history) >= 2 /\ current_index > 0) =>
          /\ pc' = "review" /\ exc' = ""
          /\ current_index' = current_index - 1
          /\ displayed' = ShownText(message_history[current_index])
     /\ (/\ pc = "review" /\ lastChoice' = "N"
         /\ Len(message_history) >= 2
         /\ current_index < Len(message_history) - 1) =>
          /\ pc' = "review" /\ exc' = ""
          /\ current_index' = current_index + 1
          /\ displayed' = ShownText(message_history[current_index + 2])]_vars

\* C12: when an operation has returned or failed, git_rebase_script.sh does
\* not exist.
C12_ScriptDeleted == pc \in {"menu", "exited", "crashed"} => ~script

----------------------------------------------------------------------------
\* run_git_command applied on its own

MaxCalls == 2

\* argument lists handed to run_git_command
GitArgLists == {"git status", "git add", "git rev-parse HEAD"}

\* what the subprocess writes to its standard output
Stdouts ==
  { <<>>, <<" ">>, <<"a">>, <<" ", "a", "\n">>, <<"a", " ", "b">>,
    <<"\n", "a", " ", "b", " ">> }

RunGitCommand ==
  /\ pc = "start" /\ Len(gitRuns) < MaxCalls
  /\ \E command \in GitArgLists, ok \in BOOLEAN, stdout \in Stdouts :
       Call(RunGit(Step(Cur), command, <<>>, ok), "run_git_command",
            [command |-> command, ok |-> ok, stdout |-> stdout],
            run_git_command(ok, stdout))

SpecGit == Init /\ [][RunGitCommand]_vars

\* r is str with the whitespace at both ends removed
IsTrimOf(r, str) ==
  \E i \in 0..Len(str), j \in 0..Len(str) :
    /\ i + j <= Len(str)
    /\ r = SubSeq(str, i + 1, Len(str) - j)
    /\ \A k \in 1..i : IsSpace(str[k])
    /\ \A k \in (Len(str) - j + 1)..Len(str) : IsSpace(str[k])
    /\ r # <<>> => (~IsSpace(r[1]) /\ ~IsSpace(r[Len(r)]))

\* C13: one call of run_git_command runs the given command exactly once;
\* with exit status zero it returns the standard output without the
\* whitespace at its ends and prints nothing, with a non-zero exit status it
\* prints the error and returns None.
C13_RunGitCommand ==
  [][call'.fn = "run_git_command" =>
       LET a == call'.args
           r == call'.result
       IN /\ Len(gitRuns') = Len(gitRuns) + 1
          /\ SubSeq(gitRuns', 1, Len(gitRuns)) = gitRuns
          /\ gitRuns'[Len(gitRuns')] = GitRun(a.command, <<>>, a.ok)
          /\ a.ok => (IsTrimOf(r, a.stdout) /\ r # None /\ out' = {})
          /\ ~a.ok => (r = None /\ "git_error" \in out')]_vars

C13_Witness ==
  /\ call.fn = "run_git_command"
  /\ Len(gitRuns) = 2 /\ ~gitRuns[1].ok /\ gitRuns[2].ok
  /\ call.args.stdout = <<"\n", "a", " ", "b", " ">>
  /\ call.result = <<"a", " ", "b">>

----------------------------------------------------------------------------
\* generate_commit_message (variant 2) applied on its own

Replies2 == Responses2 \cup TextReplies2

GenerateCommitMessage2 ==
  /\ pc = "start" /\ posts < MaxPosts
  /\ \E d \in DiffOutputs, resp \in Replies2 :
       Call(Generate(Step(Cur), d, resp, generate_commit_message2(d, resp)),
            "generate_commit_message", [diff |-> d, resp |-> resp],
            generate_commit_message2(d, resp))

SpecGen == Init /\ [][GenerateCommitMessage2]_vars

\* the text from the first '{' to the last '}' of the reply is a JSON object
Decodable(content) ==
  LET text == ai_response_of(content)
  IN /\ find(text, "{") >= 0 /\ rfind(text, "}") >= 0
     /\ json_loads(Slice(text, find(text, "{"), rfind(text, "}") + 1)).ok

\* C14: generate_commit_message (variant 2) returns a record with all the
\* six fields on every path; for a reply that arrived it is the decoded
\* object completed with empty fields when the reply holds a JSON object, and
\* the result of the text-splitting fallback exactly when it holds none.
C14_SixFields ==
  call.fn = "generate_commit_message" =>
    LET a == call.args
        r == call.result
    IN /\ DOMAIN r = FieldNames
       /\ ~Truthy(a.diff) => r = [EmptyData EXCEPT !.subject = NoChangesText]
       /\ (Truthy(a.diff) /\ a.resp.kind = "error") => r = EmptyData
       /\ (Truthy(a.diff) /\ a.resp.kind = "text") =>
            /\ Decodable(a.resp.content) <=> reply_path(a.resp.content) = "json"
            /\ ~Decodable(a.resp.content) =>
                 r = fallback_parse(ai_response_of(a.resp.content))
            /\ Decodable(a.resp.content) =>
                 LET text == ai_response_of(a.resp.content)
                     obj == json_loads(Slice(text, find(text, "{"),
                                             rfind(text, "}") + 1)).members
                 IN \A f \in FieldNames :
                      r[f] = IF HasKey(obj, FieldKey[f])
                             THEN GetKey(obj, FieldKey[f]) ELSE <<>>

C14_Witness ==
  /\ call.fn = "generate_commit_message"
  /\ Truthy(call.args.diff) /\ call.args.resp.kind = "text"
  /\ ~Decodable(call.args.resp.content)
  /\ call.result.type = <<"f", "i", "x">> /\ call.result.scope = <<"c", "o", "r", "e">>

----------------------------------------------------------------------------
\* Properties of the assembled message

FixCrashMessage ==
  <<"f","i","x","(","c","o","r","e",")",":"," ","F","i","x"," ","c","r","a","s","h">>

\* C15: in create_new_commit of variant 2, the message assembled from a
\* reply whose body, breaking and footer are empty is the single line
\* type(scope): subject, the parentheses present when there is a scope; for
\* the reply that is the JSON object with type fix, scope core and subject
\* "Fix crash" it is exactly "fix(core): Fix crash".
C15_AssembledMessage ==
  (/\ variant = 2 /\ op = "create_new_commit" /\ pc = "review"
   /\ genStatus = "ok"
   /\ lastResult.body = <<>> /\ lastResult.breaking = <<>>
   /\ lastResult.footer = <<>>) =>
     /\ formatted_message =
          lastResult.type
            \o (IF lastResult.scope = <<>> THEN <<>>
                ELSE <<"(">> \o lastResult.scope \o <<")">>)
            \o <<":", " ">> \o lastResult.subject
     /\ lastResult = parse_reply(FixCrashReply) =>
          formatted_message = FixCrashMessage

C15_Witness ==
  /\ variant = 2 /\ op = "create_new_commit" /\ pc = "review"
  /\ genStatus = "ok" /\ Truthy(diff)
  /\ lastResult = parse_reply(FixCrashReply)
  /\ formatted_message = FixCrashMessage

\* the type of a commit message: the first line up to its first '(' or ':'
MessageType(message) ==
  LET header == split(message, "\n")[1]
      stops == {i \in 1..Len(header) : header[i] \in {"(", ":"}}
  IN IF stops = {} THEN header
     ELSE SubSeq(header, 1, (CHOOSE i \in stops : \A j \in stops : i <= j) - 1)

TypeValues == {COMMIT_TYPES[i] : i \in 1..Len(COMMIT_TYPES)}

\* C16: every message that git commit, git commit --amend or the rebase has
\* written has a type that is one of the ten fixed values.
C16_TypeIsEnumerated ==
  \A i \in 1..Len(gitRuns) :
    (IsWrite(gitRuns[i]) /\ gitRuns[i].ok) =>
      MessageType(gitRuns[i].arg) \in TypeValues

----------------------------------------------------------------------------
\* format_commit_message (both variants); ctype and sc are its parameters
\* commit_type and scope

LowerCase ==
  <<"a","b","c","d","e","f","g","h","i","j","k","l","m",
    "n","o","p","q","r","s","t","u","v","w","x","y","z">>

UpperCase ==
  <<"A","B","C","D","E","F","G","H","I","J","K","L","M",
    "N","O","P","Q","R","S","T","U","V","W","X","Y","Z">>

\* str.upper() of one character, for the letters a to z; any other character
\* is kept
upper(c) ==
  IF \E i \in 1..Len(LowerCase) : LowerCase[i] = c
  THEN UpperCase[CHOOSE i \in 1..Len(LowerCase) : LowerCase[i] = c]
  ELSE c

\* str.isupper() of one character
isupper(c) == \E i \in 1..Len(UpperCase) : UpperCase[i] = c

\* str.endswith(c) for a one-character suffix
endswith(str, c) == str # <<>> /\ str[Len(str)] = c

\* COMMIT_FORMAT_CONFIG["format_rules"]["subject"]["max_length"]
max_subject_length == 50

\* a subject rule that drops every final period
Mut_format_subject1(subject) ==
  LET s1 == IF Truthy(subject) THEN <<upper(subject[1])>> \o Tail(subject)
            ELSE subject
      n  == CHOOSE k \in 0..Len(s1) :
              /\ \A i \in (Len(s1) - k + 1)..Len(s1) : s1[i] = "."
              /\ (k = Len(s1) \/ s1[Len(s1) - k] # ".")
      s2 == SubSeq(s1, 1, Len(s1) - n)
  IN IF Len(s2) > max_subject_length THEN SubSeq(s2, 1, max_subject_length)
     ELSE s2

\* variant 1: capitalise, drop one final period, cut to the maximum length
format_subject1(subject) ==
  LET s1 == IF Truthy(subject) THEN <<upper(subject[1])>> \o Tail(subject)
            ELSE subject
      s2 == IF Truthy(s1) /\ endswith(s1, ".") THEN SubSeq(s1, 1, Len(s1) - 1)
            ELSE s1
  IN IF Len(s2) > max_subject_length THEN SubSeq(s2, 1, max_subject_length)
     ELSE s2

\* variant 1: the header
format_header1(ctype, sc, subject) ==
  IF Truthy(sc)
  THEN ctype \o <<"(">> \o sc \o <<")", ":", " ">> \o format_subject1(subject)
  ELSE ctype \o <<":", " ">> \o format_subject1(subject)

\* variant 2: trim, capitalise, drop one final period
format_subject2(subject) ==
  LET s0 == strip(subject)
      s1 == IF Truthy(s0) /\ ~isupper(s0[1]) THEN <<upper(s0[1])>> \o Tail(s0)
            ELSE s0
  IN IF Truthy(s1) /\ endswith(s1, ".") THEN SubSeq(s1, 1, Len(s1) - 1) ELSE s1

\* variant 2: the header, f"{commit_type}{scope}: {subject}"
format_header2(ctype, sc, subject) ==
  ctype \o sc \o <<":", " ">> \o format_subject2(subject)

\* str.split(sub) for a string sub
RECURSIVE splitsub(_, _)
splitsub(str, sub) ==
  IF findsub(str, sub) < 0 THEN <<str>>
  ELSE <<Slice(str, 0, findsub(str, sub))>>
       \o splitsub(Slice(str, findsub(str, sub) + Len(sub), Len(str)), sub)

\* textwrap: every whitespace character becomes a space
munge_whitespace(text) == [i \in 1..Len(text) |-> IF IsSpace(text[i]) THEN " " ELSE text[i]]

\* textwrap: the text cut into runs of spaces and runs of other characters
RECURSIVE split_chunks(_)
split_chunks(text) ==
  IF text = <<>> THEN <<>>
  ELSE LET same(i) == (text[i] = " ") = (text[1] = " ")
           n == CHOOSE i \in 1..Len(text) :
                  /\ \A j \in 1..i : same(j)
                  /\ (i = Len(text) \/ ~same(i + 1))
       IN <<SubSeq(text, 1, n)>> \o split_chunks(SubSeq(text, n + 1, Len(text)))

RECURSIVE concat(_)
concat(parts) == IF parts = <<>> THEN <<>> ELSE Head(parts) \o concat(Tail(parts))

RECURSIVE total_len(_)
total_len(parts) == IF parts = <<>> THEN 0 ELSE Len(Head(parts)) + total_len(Tail(parts))

\* _wrap_chunks: the number of leading chunks that fit into width
fit_count(c0, width) ==
  CHOOSE i \in 0..Len(c0) :
    /\ total_len(SubSeq(c0, 1, i)) <= width
    /\ (i = Len(c0) \/ total_len(SubSeq(c0, 1, i + 1)) > width)

\* _handle_long_word: a chunk longer than the width is cut to fill the line
handle_long_word(cur, rest, width, space_left) ==
  IF rest # <<>> /\ Len(rest[1]) > width
  THEN [cur  |-> Append(cur, SubSeq(rest[1], 1, space_left)),
        rest |-> <<SubSeq(rest[1], space_left + 1, Len(rest[1]))>> \o Tail(rest)]
  ELSE [cur |-> cur, rest |-> rest]

\* _wrap_chunks: the chunks of one line, and the chunks left for the next
take_line(c0, k, width) ==
  handle_long_word(SubSeq(c0, 1, k), SubSeq(c0, k + 1, Len(c0)), width,
                   IF width < 1 THEN 1 ELSE width - total_len(SubSeq(c0, 1, k)))

\* _wrap_chunks: a line does not end with a chunk of spaces
drop_last_blank(cur) ==
  IF cur # <<>> /\ strip(cur[Len(cur)]) = <<>> THEN SubSeq(cur, 1, Len(cur) - 1)
  ELSE cur

\* _wrap_chunks: the line is stored unless nothing is left of it
add_line(lines, indent, cur) ==
  IF cur # <<>> THEN Append(lines, indent \o concat(cur)) ELSE lines

\* textwrap.TextWrapper._wrap_chunks: one pass of the outer loop per call
RECURSIVE wrap_chunks(_, _, _, _, _)
RECURSIVE wrap_line(_, _, _, _, _, _)

wrap_from(c0, lines, full_width, initial_indent, subsequent_indent, indent) ==
  wrap_line(take_line(c0, fit_count(c0, full_width - Len(indent)),
                      full_width - Len(indent)),
            lines, full_width, initial_indent, subsequent_indent, indent)

wrap_line(taken, lines, full_width, initial_indent, subsequent_indent, indent) ==
  wrap_chunks(taken.rest, add_line(lines, indent, drop_last_blank(taken.cur)),
              full_width, initial_indent, subsequent_indent)

wrap_chunks(chunks, lines, full_width, initial_indent, subsequent_indent) ==
  IF chunks = <<>> THEN lines
  ELSE wrap_from(IF strip(chunks[1]) = <<>> /\ lines # <<>> THEN Tail(chunks)
                 ELSE chunks,
                 lines, full_width, initial_indent, subsequent_indent,
                 IF lines # <<>> THEN subsequent_indent ELSE initial_indent)

\* textwrap.fill(text, width=width, subsequent_indent=subsequent_indent)
fill(text, width, subsequent_indent) ==
  join(NL, wrap_chunks(split_chunks(munge_whitespace(text)), <<>>, width,
                       <<>>, subsequent_indent))

\* COMMIT_FORMAT_CONFIG["format_rules"]["body"]["wrap_length"]
wrap_length == 72

is_bullet(line) == startswith(strip(line), <<"-">>) \/ startswith(strip(line), <<"*">>)

\* variant 1: one line of a bulleted paragraph
format_bullet_line1(line) ==
  IF is_bullet(line)
  THEN LET indent == <<" ", " ">>
           bullet == <<strip(line)[1], " ">>
           text   == strip(Slice(strip(line), 2, Len(strip(line))))
       IN bullet \o fill(text, wrap_length - Len(bullet) - Len(indent),
                         indent \o <<" ", " ">>)
  ELSE fill(line, wrap_length, <<>>)

\* variant 1: one paragraph of the body
format_paragraph1(paragraph) ==
  IF is_bullet(paragraph)
  THEN LET lines == split(paragraph, "\n")
       IN join(NL, [i \in 1..Len(lines) |-> format_bullet_line1(lines[i])])
  ELSE fill(paragraph, wrap_length, <<>>)

\* variant 1: formatted_body
format_body1(body) ==
  IF Truthy(body)
  THEN LET paragraphs == splitsub(body, NL \o NL)
       IN join(NL \o NL, [i \in 1..Len(paragraphs) |-> format_paragraph1(paragraphs[i])])
  ELSE <<>>

\* variant 1: formatted_breaking
format_breaking1(breaking) ==
  IF Truthy(breaking) /\ ~startswith(breaking, BreakingMarker)
  THEN BreakingMarker \o breaking
  ELSE breaking

Digits == {"0", "1", "2", "3", "4", "5", "6", "7", "8", "9"}

\* re.findall(r'#(\d+)', footer)
RECURSIVE issue_refs(_)
issue_refs(footer) ==
  IF footer = <<>> THEN <<>>
  ELSE IF footer[1] = "#" /\ Len(footer) >= 2 /\ footer[2] \in Digits
  THEN LET n == CHOOSE i \in 2..Len(footer) :
                  /\ \A j \in 2..i : footer[j] \in Digits
                  /\ (i = Len(footer) \/ footer[i + 1] \notin Digits)
       IN <<SubSeq(footer, 2, n)>> \o issue_refs(SubSeq(footer, n + 1, Len(footer)))
  ELSE issue_refs(Tail(footer))

Soluciona == <<"S","o","l","u","c","i","o","n","a">>
Closes == <<"C","l","o","s","e","s">>

\* variant 1: formatted_footer
format_footer1(footer) ==
  IF /\ Truthy(footer) /\ find(footer, "#") >= 0
     /\ findsub(footer, Soluciona) < 0 /\ findsub(footer, Closes) < 0
     /\ issue_refs(footer) # <<>>
  THEN LET refs == issue_refs(footer)
       IN join(NL, [i \in 1..Len(refs) |-> Soluciona \o <<":", " ", "#">> \o refs[i]])
  ELSE footer

\* message_parts: a blank line comes before the first part after the header
message_parts(header, body, breaking, footer) ==
  <<header>>
    \o (IF Truthy(body) THEN << <<>>, body >> ELSE <<>>)
    \o (IF Truthy(breaking)
        THEN (IF ~Truthy(body) THEN << <<>> >> ELSE <<>>) \o <<breaking>>
        ELSE <<>>)
    \o (IF Truthy(footer)
        THEN (IF ~Truthy(body) /\ ~Truthy(breaking) THEN << <<>> >> ELSE <<>>)
             \o <<footer>>
        ELSE <<>>)

\* format_commit_message (variant 1)
format_commit_message1(ctype, sc, subject, body, breaking, footer) ==
  join(NL, message_parts(format_header1(ctype, sc, subject), format_body1(body),
                         format_breaking1(breaking), format_footer1(footer)))

\* variant 2: the body, "\n\n".join(body.split("\n\n"))
format_body2(body) ==
  IF Truthy(body) THEN join(NL \o NL, splitsub(body, NL \o NL)) ELSE <<>>

\* variant 2: f"BREAKING CHANGE: {breaking}"
format_breaking2(breaking) ==
  IF Truthy(breaking) THEN BreakingMarker \o breaking ELSE <<>>

\* variant 2: the footer gets "Soluciona: " unless it starts with
\* "Soluciona:" or "Closes:"
format_footer2(footer) ==
  IF /\ Truthy(footer)
     /\ ~startswith(footer, Soluciona \o <<":">>)
     /\ ~startswith(footer, Closes \o <<":">>)
  THEN Soluciona \o <<":", " ">> \o footer
  ELSE footer

\* format_commit_message (variant 2)
format_commit_message2(ctype, sc, subject, body, breaking, footer) ==
  join(NL, message_parts(format_header2(ctype, sc, subject), format_body2(body),
                         format_breaking2(breaking), format_footer2(footer)))

----------------------------------------------------------------------------
\* format_commit_message applied on its own

Repeat(c, n) == [i \in 1..n |-> c]

FormatTypes == { <<"f","i","x">>, <<"f","e","a","t">> }

\* subjects: none, plain, capitalised with a final period, two final
\* periods, spaces around a final period, a single period, at the maximum
\* length, over it with a period at the cut, over it by two periods
FormatSubjects ==
  { <<>>,
    <<"f","i","x"," ","c","r","a","s","h">>,
    <<"F","i","x"," ","c","r","a","s","h",".">>,
    <<"a",".",".">>,
    <<" ","b","."," ">>,
    <<".">>,
    Repeat("x", max_subject_length),
    Repeat("y", max_subject_length - 1) \o <<".","z">>,
    Repeat("z", max_subject_length) \o <<".",".">> }

FormatBodies == { <<>>, <<"b">> }
\* breaking-change texts: none, plain, already carrying the marker
FormatBreakings == { <<>>, <<"x">>, BreakingMarker \o <<"y">> }
\* footers: none, one reference, two references inside text, a reference
\* after the word Closes
FormatFooters ==
  { <<>>, <<"#","4","2">>,
    <<"f","i","x","e","s"," ","#","1",","," ","#","2","2">>,
    <<"C","l","o","s","e","s"," ","#","3">> }

FormatCommitMessage ==
  /\ pc = "start" /\ call = NoCall
  /\ \E ctype \in FormatTypes, sc \in Scopes, subject \in FormatSubjects,
        body \in FormatBodies, breaking \in FormatBreakings,
        footer \in FormatFooters :
       Call(Cur, "format_commit_message",
            [commit_type |-> ctype, scope |-> sc, subject |-> subject,
             body |-> body, breaking |-> breaking, footer |-> footer],
            IF variant = 1
            THEN format_commit_message1(ctype, sc, subject, body, breaking, footer)
            ELSE format_commit_message2(ctype, sc, subject, body, breaking, footer))

SpecFormat == Init /\ [][FormatCommitMessage]_vars

\* the first line of a message
HeaderOf(message) == split(message, "\n")[1]

\* the subject of a header: what follows its first ": "
HeaderSubject(header) ==
  Slice(header, findsub(header, <<":", " ">>) + 2, Len(header))

\* C17: format_commit_message gives the header type(scope): subject for a
\* non-empty scope name and type: subject for an empty scope.
C17_Header ==
  call.fn = "format_commit_message" =>
    LET a == call.args
        header == HeaderOf(call.result)
    IN IF a.scope # <<>>
       THEN startswith(header, a.commit_type \o <<"(">> \o a.scope \o <<")", ":", " ">>)
       ELSE startswith(header, a.commit_type \o <<":", " ">>)

\* C18: the subject in the header format_commit_message returns never ends
\* with a period.
C18_NoFinalPeriod ==
  call.fn = "format_commit_message" =>
    ~endswith(HeaderSubject(HeaderOf(call.result)), ".")

\* the number of periods in a string
Periods(str) == Cardinality({i \in 1..Len(str) : str[i] = "."})

\* C19 as stated: a subject that ends in a period comes out with exactly one
\* period fewer, and a subject that does not end in a period loses none.
C19_OnePeriodRemoved ==
  call.fn = "format_commit_message" =>
    LET subject == call.args.subject
        placed  == HeaderSubject(HeaderOf(call.result))
    IN Periods(placed) =
         IF endswith(subject, ".") THEN Periods(subject) - 1 ELSE Periods(subject)

\* C19: the period rule acts on the subject as it stands after the second
\* variant has trimmed it: when that ends in a period exactly one final
\* period is dropped, otherwise nothing is; the first letter is capitalised
\* and the first variant then keeps at most max_subject_length characters.
C19_OnePeriodRemovedAfterTrim ==
  call.fn = "format_commit_message" =>
    LET subject == IF variant = 2 THEN strip(call.args.subject)
                   ELSE call.args.subject
        kept    == IF endswith(subject, ".")
                   THEN SubSeq(subject, 1, Len(subject) - 1) ELSE subject
        placed  == HeaderSubject(HeaderOf(call.result))
    IN /\ Len(placed) = IF variant = 1 /\ Len(kept) > max_subject_length
                        THEN max_subject_length ELSE Len(kept)
       /\ \A i \in 1..Len(placed) :
            placed[i] = IF i = 1 THEN upper(kept[i]) ELSE kept[i]

C19_Witness ==
  /\ call.fn = "format_commit_message"
  /\ call.args.subject = <<"a", ".", ".">>
  /\ HeaderSubject(HeaderOf(call.result)) = <<"A", ".">>

\* C20: formatting the subject of a header that format_commit_message
\* produced, with the same type and scope, gives the same header.
C20_HeaderIdempotent ==
  call.fn = "format_commit_message" =>
    LET a == call.args
        header == HeaderOf(call.result)
        placed == HeaderSubject(header)
    IN header = IF variant = 1
                THEN format_header1(a.commit_type, a.scope, placed)
                ELSE format_header2(a.commit_type, a.scope, placed)

----------------------------------------------------------------------------
\* Properties of the breaking-change marker, the footer and the length limit

\* the number of places where sub occurs in str
CountSub(str, sub) ==
  Cardinality({i \in 0..(Len(str) - Len(sub)) :
                 SubSeq(str, i + 1, i + Len(sub)) = sub})

\* C21: for a non-empty breaking-change text the message that
\* format_commit_message returns holds the marker BREAKING CHANGE: exactly
\* once, in front of the text: added when the text lacks it, not repeated
\* when the text carries it.
C21_MarkerOnce ==
  (call.fn = "format_commit_message" /\ call.args.breaking # <<>>) =>
    /\ CountSub(call.result, BreakingKey) = 1
    /\ findsub(call.result,
               IF startswith(call.args.breaking, BreakingMarker)
               THEN call.args.breaking
               ELSE BreakingMarker \o call.args.breaking) >= 0

\* C22: when the footer holds issue references #<number>, the footer of the
\* message that format_commit_message returns is one line Soluciona: #<number>
\* per reference, and nothing else of the footer is left.
C22_FooterTemplate ==
  (call.fn = "format_commit_message" /\ issue_refs(call.args.footer) # <<>>) =>
    LET refs  == issue_refs(call.args.footer)
        lines == split(call.result, "\n")
        n     == Len(refs)
    IN /\ Len(lines) > n
       /\ \A i \in 1..n :
            lines[Len(lines) - n + i] = Soluciona \o <<":", " ", "#">> \o refs[i]
       /\ \A i \in 1..(Len(lines) - n) : find(lines[i], "#") < 0

\* C23: the subject in the header that format_commit_message returns is never
\* longer than max_subject_length; a subject within the limit is not cut.
C23_SubjectLimit ==
  call.fn = "format_commit_message" =>
    LET subject == IF variant = 2 THEN strip(call.args.subject)
                   ELSE call.args.subject
        kept    == IF endswith(subject, ".")
                   THEN SubSeq(subject, 1, Len(subject) - 1) ELSE subject
        placed  == HeaderSubject(HeaderOf(call.result))
    IN /\ Len(placed) <= max_subject_length
       /\ Len(kept) <= max_subject_length => Len(placed) = Len(kept)

----------------------------------------------------------------------------
\* Variant 2: the unstage and undo-commit subcommands

\* str.lower() of one character, for the letters A to Z
lower_char(c) ==
  IF \E i \in 1..Len(UpperCase) : UpperCase[i] = c
  THEN LowerCase[CHOOSE i \in 1..Len(UpperCase) : UpperCase[i] = c]
  ELSE c

\* str.lower()
lower(str) == [i \in 1..Len(str) |-> lower_char(str[i])]

\* unstage_changes: subprocess.run without check
unstage_changes(s, files, all_files, oks) ==
  IF all_files
  THEN Say(Say(Git(s, "git reset", <<>>, oks[1]), "ok_unstaged"), "commands_executed")
  ELSE IF files # <<>>
  THEN LET RECURSIVE RestoreEach(_, _)
           RestoreEach(st, i) ==
             IF i > Len(files) THEN st
             ELSE RestoreEach(Git(st, "git restore --staged", files[i], oks[i]), i + 1)
       IN Say(Say(RestoreEach(s, 1), "ok_unstaged"), "commands_executed")
  ELSE Say(s, "no_files_specified")

\* main: the unstage subcommand
main2_unstage(s, files, all, oks) ==
  IF all \/ files = <<>>
  THEN ToExit(unstage_changes(Begin(s, "unstage"), <<>>, TRUE, oks))
  ELSE ToExit(unstage_changes(Begin(s, "unstage"), files, FALSE, oks))

Main2Unstage ==
  /\ pc = "start" /\ variant = 2 /\ argv.command = "unstage"
  /\ \E oks \in [1..2 -> BOOLEAN] :
       Apply(main2_unstage(Cur, argv.files, argv.all, oks))

HeadParent == <<"H","E","A","D","~","1">>

\* the answers that let the hard reset go on
UndoYes == { <<"y">>, <<"s">>, <<"y","e","s">>, <<"s","i">> }

\* undo_last_commit, after the reset has run
undo_done(s, ok, tag) ==
  IF ~ok THEN ToExit(Say(s, "undo_error"))
  ELSE ToExit(Say(Say(s, tag), "commands_executed"))

\* undo_last_commit up to its prompt, or to its end when keep_changes is set
undo_last_commit(s, keep_changes, ok) ==
  IF keep_changes
  THEN undo_done(Git(s, "git reset --soft", HeadParent, ok), ok, "ok_undone")
  ELSE [s EXCEPT !.pc = "ulc_confirm"]

\* an undo_last_commit that goes on unless the answer is n
Mut_undo_confirm(s0, confirm, ok) ==
  LET s == [Step(s0) EXCEPT !.answer = confirm]
  IN IF lower(confirm) = <<"n">> THEN ToExit(Say(s, "cancelled"))
     ELSE undo_done(Git(s, "git reset --hard", HeadParent, ok), ok, "ok_discarded")

\* undo_last_commit: the confirmation is read
undo_confirm(s0, confirm, ok) ==
  LET s == [Step(s0) EXCEPT !.answer = confirm]
  IN IF lower(confirm) \notin UndoYes THEN ToExit(Say(s, "cancelled"))
     ELSE undo_done(Git(s, "git reset --hard", HeadParent, ok), ok, "ok_discarded")

\* main: the undo-commit subcommand
Main2UndoCommit ==
  /\ pc = "start" /\ variant = 2 /\ argv.command = "undo-commit"
  /\ \E ok \in BOOLEAN :
       Apply(undo_last_commit(Begin(Cur, "undo_last_commit"), ~argv.hard, ok))

UndoConfirm ==
  /\ pc = "ulc_confirm"
  /\ \E confirm \in UndoAnswers, ok \in BOOLEAN : Apply(undo_confirm(Cur, confirm, ok))

----------------------------------------------------------------------------
\* Properties of the commands that rewrite history

IsRewrite(run) == run.cmd \in {"git commit --amend", "git rebase"}

Rewrites(runs) == SelectSeq(runs, IsRewrite)

ConfirmPrompts == {"rl_confirm", "ecm_confirm", "esc_confirm"}

\* C24: git commit --amend and git rebase are invoked only by the step that
\* reads y or s at the confirmation prompt of rename_last_commit,
\* edit_specific_commit or edit_commit_manually; any other answer there ends
\* the operation with no git command run, and no other step (a cancel
\* choice, an empty commit id, an empty manual message) invokes either.
C24_RewriteOnlyOnConsent ==
  [][/\ Len(Rewrites(gitRuns')) > Len(Rewrites(gitRuns)) =>
          /\ pc \in ConfirmPrompts
          /\ lastChoice' \in {"y", "s"}
     /\ (pc \in ConfirmPrompts /\ lastChoice' \notin {"y", "s"}) =>
          /\ pc' \in {"menu", "exited"}
          /\ gitRuns' = gitRuns]_vars

C24_Witness ==
  /\ op = "rename_last_commit"
  /\ lastChoice = "y"
  /\ Rewrites(gitRuns) # <<>>

C24_WitnessRefused ==
  /\ op = "edit_specific_commit"
  /\ lastChoice = "n"
  /\ pc \in {"menu", "exited"}

C26_ReviewShowsCurrentDraft ==
  pc = "review" =>
    /\ message_history # <<>>
    /\ 0 <= current_index
    /\ current_index < Len(message_history)
    /\ displayed = ShownText(message_history[current_index + 1])

C26_Witness ==
  /\ pc = "review"
  /\ lastChoice = "E"
  /\ Len(message_history) >= 3
  /\ current_index = Len(message_history) - 1

----------------------------------------------------------------------------
\* Properties of the undo-commit, stage and unstage subcommands

IsHardReset(run) == run.cmd = "git reset --hard"

IsSoftReset(run) == run.cmd = "git reset --soft"

HardResets(runs) == SelectSeq(runs, IsHardReset)

\* C27: undo-commit --hard runs git reset --hard HEAD~1 only in the step
\* that reads y, s, yes or si (in any letter case) at the confirmation
\* prompt; any other answer cancels with no git command run; without --hard
\* git reset --soft HEAD~1 is the one command run and no hard reset runs.
C27_HardResetOnlyOnConsent ==
  [][/\ HardResets(gitRuns') # HardResets(gitRuns) =>
          /\ pc = "ulc_confirm" /\ argv.hard
          /\ lower(answer') \in UndoYes
          /\ gitRuns' = <<GitRun("git reset --hard", HeadParent, Last(gitRuns').ok)>>
     /\ (pc = "ulc_confirm" /\ lower(answer') \notin UndoYes) =>
          /\ pc' = "exited" /\ gitRuns' = <<>> /\ "cancelled" \in out'
     /\ (op' = "undo_last_commit" /\ ~argv.hard) =>
          /\ pc' = "exited"
          /\ Len(gitRuns') = 1 /\ IsSoftReset(gitRuns'[1])
          /\ gitRuns'[1].arg = HeadParent]_vars

C27_Witness ==
  /\ op = "undo_last_commit" /\ argv.hard
  /\ answer = <<"S","i">>
  /\ HardResets(gitRuns) # <<>>

\* the git command stage or unstage runs once for all changes
IsAllRun(run) ==
  \/ run.cmd = "git add" /\ run.arg = Dot
  \/ run.cmd = "git reset"

\* the git command stage or unstage runs for one file
FileCommand == IF op = "stage" THEN "git add" ELSE "git restore --staged"

\* C28: stage and unstage act on all changes only when --all is given;
\* without --all and without file arguments they run no git command and
\* print the hint that no files were specified; without --all and with file
\* arguments they run one command per file, on exactly those files.
C28_AllOnlyWithFlag ==
  (pc = "exited" /\ op \in {"stage", "unstage"}) =>
    /\ (\E i \in 1..Len(gitRuns) : IsAllRun(gitRuns[i])) => argv.all
    /\ (~argv.all /\ argv.files = <<>>) =>
         /\ gitRuns = <<>>
         /\ "no_files_specified" \in out
    /\ (~argv.all /\ argv.files # <<>>) =>
         /\ Len(gitRuns) = Len(argv.files)
         /\ \A i \in 1..Len(gitRuns) :
              gitRuns[i].cmd = FileCommand /\ gitRuns[i].arg = argv.files[i]

----------------------------------------------------------------------------
\* The fallback parser of generate_commit_message (variant 2) applied to
\* assembled messages

\* commit data with a type and a subject, a body of at most one paragraph,
\* and no colon, parenthesis or newline in type, scope and subject
ParseFields ==
  {[type |-> <<"f","i","x">>, scope |-> sc, subject |-> <<"S">>,
    body |-> b, breaking |-> br, footer |-> f] :
     sc \in Scopes, b \in { <<>>, <<"b">> }, br \in { <<>>, <<"x">> },
     f \in { <<>>, <<"#","1">> }}

ParseAssembled ==
  /\ pc = "start" /\ call = NoCall
  /\ \E cd \in ParseFields :
       Call(Cur, "fallback_parse", cd, parse_reply(Assemble2(cd)))

SpecParse == Init /\ [][ParseAssembled]_vars

\* C29: the fallback parser returns the fields a message was assembled
\* from, for fields with a type and a subject, a body of one paragraph and
\* no colon, parenthesis or newline in type, scope and subject.
C29_ParseInvertsAssembly ==
  call.fn = "fallback_parse" =>
    /\ reply_path(Assemble2(call.args)) = "fallback"
    /\ call.result = call.args

----------------------------------------------------------------------------
\* format_commit_message (variant 1) applied to bodies made of bullet lines

\* bullet lines: a dash and a space, a dash with no space, an asterisk with
\* and without a space, leading spaces, two lines, a line longer than the
\* wrap length
BulletBodies ==
  { <<"-"," ","a"," ","b">>, <<"-","x","y"," ","z">>, <<"*"," ","c">>,
    <<"*","c">>, <<" "," ","-"," ","d">>,
    <<"-"," ","a","\n","*"," ","b">>,
    <<"-"," ">> \o Repeat("a", 40) \o <<" ">> \o Repeat("b", 40) }

FormatBulletBody ==
  /\ pc = "start" /\ call = NoCall /\ variant = 1
  /\ \E body \in BulletBodies :
       Call(Cur, "format_bullet_body", [body |-> body],
            format_commit_message1(<<"f","i","x">>, <<>>, <<"S">>, body, <<>>, <<>>))

SpecBullet == Init /\ [][FormatBulletBody]_vars

IsNonSpace(c) == ~IsSpace(c)

\* the characters of a text that are not whitespace, in order
NonSpace(str) == SelectSeq(str, IsNonSpace)

\* the body of a formatted message that has a header and a body
BodyOf(message) == splitsub(message, NL \o NL)[2]

\* C30: a formatted bullet line keeps the bullet and every character of the
\* line's text that is not whitespace, in order, and starts with the
\* bullet, one space and the first character of the text.
C30_BulletLineKept ==
  call.fn = "format_bullet_body" =>
    LET lines == split(call.args.body, "\n")
        outs == split(BodyOf(call.result), "\n")
    IN /\ NonSpace(BodyOf(call.result)) = NonSpace(call.args.body)
       /\ \A i \in 1..Len(lines) :
            \E j \in 1..Len(outs) :
              startswith(outs[j], <<strip(lines[i])[1], " ",
                                    NonSpace(lines[i])[2]>>)

----------------------------------------------------------------------------
Next ==
  \/ Main1 \/ MenuExit \/ MenuInvalid
  \/ CreateNewCommit1
  \/ ReviewAccept1 \/ ReviewRegenerate1 \/ ReviewEdit1 \/ ReviewCancel1
  \/ ReviewInvalid1
  \/ MenuGitManagement \/ GitMenuStatus \/ GitMenuAdd \/ GitMenuUndo
  \/ GitMenuPush \/ GitMenuPull \/ GitMenuBranch \/ GitMenuStash
  \/ GitMenuRevert \/ GitMenuReturn \/ GitMenuInvalid
  \/ EditManualText \/ EditManualConfirm1
  \/ RenameLastCommit1 \/ RenameChoice1 \/ RenameConfirm1
  \/ EditSpecificCommit1 \/ EditSpecificId1 \/ EditSpecificChoice1
  \/ EditSpecificConfirm1
  \/ EditManualConfirm2
  \/ RenameLastCommit2 \/ RenameChoice2 \/ RenameConfirm2
  \/ EditSpecificCommit2 \/ EditSpecificId2 \/ EditSpecificChoice2
  \/ EditSpecificConfirm2
  \/ Main2 \/ AiMenuInvalid \/ Main2Stage \/ Main2Status
  \/ Main2Unstage \/ Main2UndoCommit \/ UndoConfirm
  \/ CreateNewCommit2
  \/ ReviewAccept2 \/ ReviewRegenerate2 \/ ReviewPrevious2 \/ ReviewNext2
  \/ ReviewEdit2 \/ ReviewCancel2 \/ ReviewInvalid2

Spec == Init /\ [][Next]_vars

====
